---- MODULE Spec2Model ----
(***************************************************************************)
(* Verification model of the lore vault repository: the remote sync        *)
(* adapter (scripts/notion_sync.py), the index and crosslink builder and   *)
(* the batch sync handlers (app.py).                                       *)
(*                                                                         *)
(* JSON values are tagged records.  A Python string is a sequence of       *)
(* one-character strings (a directory prefix or the ".json" suffix is one  *)
(* token of such a sequence); a JSON object is a function from keys to     *)
(* values.                                                                 *)
(***************************************************************************)
EXTENDS Integers, Sequences, FiniteSets, TLC

VARIABLES
    fs,        \* local storage: path -> file content (Spec)
    db,        \* the category's remote database: sequence of pages (Spec)
    mapping,   \* the category's Field Mapping Spec, in file order (Spec)
    env,       \* NOTION_TOKEN / <CAT>_DB_ID / mapping files present (Spec, SpecBatch)
    hist,      \* operations run so far, oldest first, with their logs (Spec)
    lore,      \* per category: the formatted and the raw directory (SpecIndex, SpecBatch)
    indexes,   \* lore/indexes/<category>_index.json, once written (SpecIndex, SpecBatch)
    master,    \* lore/masterindex.json, once written (SpecIndex, SpecBatch)
    others,    \* the remote databases of the other categories (SpecBatch)
    batch,     \* the last sync handler run, with its results (SpecBatch)
    SYNONYMS,  \* the SYNONYMS global of each formatter module (SpecFormat)
    call,      \* the last formatter operation run, with its result (SpecFormat)
    sched,     \* the auto-sync scheduler's threads (SpecSched)
    schema,    \* the remote database's properties and the ensures run (SpecSchema)
    pager,     \* a pull, statement by statement, and the remote's pages (SpecPaging)
    race,      \* a pull and a request that write one entity file (SpecRace)
    disk       \* creatures.json, its backup and the refactors run (SpecRefactor)

vars == <<fs, db, mapping, env, hist, lore, indexes, master, others, batch,
          SYNONYMS, call, sched, schema, pager, race, disk>>

syncVars == <<fs, db, mapping, hist>>
indexVars == <<lore, indexes, master>>
formatVars == <<SYNONYMS, call>>
otherVars == <<schema, pager, race, disk>>

-----------------------------------------------------------------------------
(* Bounds of the model *)

MaxOps == 2

\* sync handlers run in one behaviour of the batch model
MaxRuns == 2

-----------------------------------------------------------------------------
(* JSON values *)

Null == [t |-> "null"]
Str(s) == [t |-> "str", s |-> s]
Num(n) == [t |-> "num", n |-> n]
Bool(b) == [t |-> "bool", b |-> b]
List(l) == [t |-> "list", l |-> l]
Dict(d) == [t |-> "dict", d |-> d]

EmptyDict == [k \in {} |-> Null]

IsDict(v) == v.t = "dict"
IsStr(v) == v.t = "str"

\* dict.get(key): None when the key is missing
DictGet(d, k) == IF k \in DOMAIN d THEN d[k] ELSE Null

\* d[k] = v
DictSet(d, k, v) == [x \in (DOMAIN d) \cup {k} |-> IF x = k THEN v ELSE d[x]]

\* Python truthiness of a JSON value
Truthy(v) ==
    CASE v.t = "null" -> FALSE
      [] v.t = "str" -> v.s # <<>>
      [] v.t = "num" -> v.n # 0
      [] v.t = "bool" -> v.b
      [] v.t = "list" -> v.l # <<>>
      [] v.t = "dict" -> DOMAIN v.d # {}
      [] v.t = "odict" -> v.kv # <<>>

-----------------------------------------------------------------------------
(* Characters *)

DigitChars == <<"0", "1", "2", "3", "4", "5", "6", "7", "8", "9">>
UpperChars == <<"A", "B", "L", "M", "U">>
LowerChars == <<"a", "b", "d", "e", "g", "h", "i", "l", "m", "n", "r", "s", "u", "x", "y">>

\* the characters of the model in code point order
CharOrder ==
    <<" ", "!", "-", ".", "/">> \o DigitChars \o UpperChars \o <<"_">> \o LowerChars

Range(s) == {s[i] : i \in DOMAIN s}

\* str.isalnum() of one character
IsAlnum(c) == c \in Range(DigitChars) \cup Range(UpperChars) \cup Range(LowerChars)

Ord(c) == IF c \in Range(CharOrder) THEN CHOOSE i \in DOMAIN CharOrder : CharOrder[i] = c ELSE 0

\* Python's < on strings
RECURSIVE StrLess(_, _)
StrLess(a, b) ==
    IF b = <<>> THEN FALSE
    ELSE IF a = <<>> THEN TRUE
    ELSE IF a[1] = b[1] THEN StrLess(Tail(a), Tail(b))
    ELSE Ord(a[1]) < Ord(b[1])

RECURSIVE IntToStr(_)
IntToStr(n) ==
    IF n < 10 THEN <<DigitChars[n + 1]>>
    ELSE IntToStr(n \div 10) \o <<DigitChars[(n % 10) + 1]>>

DigitVal(c) == (CHOOSE i \in DOMAIN DigitChars : DigitChars[i] = c) - 1

RECURSIVE ParseDigits(_, _)
ParseDigits(s, acc) ==
    IF s = <<>> THEN acc ELSE ParseDigits(Tail(s), acc * 10 + DigitVal(s[1]))

\* str.strip(): whitespace off both ends
RECURSIVE LStrip(_)
LStrip(s) == IF s # <<>> /\ s[1] = " " THEN LStrip(Tail(s)) ELSE s

RECURSIVE RStrip(_)
RStrip(s) ==
    IF s # <<>> /\ s[Len(s)] = " " THEN RStrip(SubSeq(s, 1, Len(s) - 1)) ELSE s

Strip(s) == RStrip(LStrip(s))

RECURSIVE Concat(_)
Concat(ss) == IF ss = <<>> THEN <<>> ELSE ss[1] \o Concat(Tail(ss))

\* repr() of a list element, str() of the whole value
RECURSIVE PyStr(_)
PyRepr(v) == IF v.t = "str" THEN <<"'">> \o v.s \o <<"'">> ELSE PyStr(v)
PyStr(v) ==
    CASE v.t = "null" -> <<"N", "o", "n", "e">>
      [] v.t = "str" -> v.s
      [] v.t = "num" -> IntToStr(v.n)
      [] v.t = "bool" -> IF v.b THEN <<"T", "r", "u", "e">> ELSE <<"F", "a", "l", "s", "e">>
      [] v.t = "list" ->
            <<"[">> \o Concat([i \in DOMAIN v.l |->
                (IF i = 1 THEN <<>> ELSE <<",", " ">>) \o PyRepr(v.l[i])]) \o <<"]">>
      [] v.t = "dict" -> <<"{", "}">>
      [] v.t = "odict" ->
            <<"{">> \o Concat([i \in DOMAIN v.kv |->
                (IF i = 1 THEN <<>> ELSE <<",", " ">>) \o <<"'">> \o v.kv[i][1]
                    \o <<"'", ":", " ">> \o PyRepr(v.kv[i][2])]) \o <<"}">>

\* float(value): [ok, n]; ok is FALSE where Python raises
PyFloat(v) ==
    CASE v.t = "num" -> [ok |-> TRUE, n |-> v.n]
      [] v.t = "bool" -> [ok |-> TRUE, n |-> IF v.b THEN 1 ELSE 0]
      [] v.t = "str" ->
            LET s == Strip(v.s) IN
            IF s # <<>> /\ \A i \in DOMAIN s : s[i] \in Range(DigitChars)
            THEN [ok |-> TRUE, n |-> ParseDigits(s, 0)]
            ELSE [ok |-> FALSE, n |-> 0]
      [] OTHER -> [ok |-> FALSE, n |-> 0]

-----------------------------------------------------------------------------
(* scripts/notion_sync.py: paths *)

CATEGORY_DIRS == {"characters", "creatures", "realms"}

\* str(CATEGORY_DIRS[category]) with its trailing separator, one token
DirOf(category) == "lore/" \o category \o "/formatted/"

\* str(base / f"{stem}.json")
PathIn(category, stem) == <<DirOf(category)>> \o stem \o <<".json">>

\* whether path p is matched by base.glob("*.json")
InDir(p, category) ==
    /\ Len(p) >= 3
    /\ p[1] = DirOf(category)
    /\ p[Len(p)] = ".json"
    /\ \A i \in 2..(Len(p) - 1) : p[i] # "/" /\ p[i] # DirOf(category)

\* Path.stem of a file of the category directory
Stem(p) == SubSeq(p, 2, Len(p) - 1)

\* sorted(): the least path first
RECURSIVE SortPaths(_)
SortPaths(S) ==
    IF S = {} THEN <<>>
    ELSE LET m == CHOOSE p \in S : \A q \in S \ {p} : StrLess(Stem(p) \o <<".">>, Stem(q) \o <<".">>)
         IN <<m>> \o SortPaths(S \ {m})

\* file contents: a parsed JSON value, or text json.loads rejects
Json(v) == [ok |-> TRUE, json |-> v]
BadJson == [ok |-> FALSE]

list_files_for(files, category) ==
    SortPaths({p \in DOMAIN files : InDir(p, category)})

\* a variant that keeps the path separator
safe_filename_KeepsSeparator(name) ==
    LET keep == [i \in DOMAIN name |->
                    IF IsAlnum(name[i]) \/ name[i] \in {" ", "-", "_", ".", "/"}
                    THEN name[i] ELSE "_"]
        stripped == Strip(keep)
        base == [i \in DOMAIN stripped |-> IF stripped[i] = " " THEN "_" ELSE stripped[i]]
    IN IF base # <<>> THEN base ELSE <<"c", "h", "a", "r", "a", "c", "t", "e", "r">>

safe_filename(name) ==
    LET keep == [i \in DOMAIN name |->
                    IF IsAlnum(name[i]) \/ name[i] \in {" ", "-", "_", "."}
                    THEN name[i] ELSE "_"]
        stripped == Strip(keep)
        base == [i \in DOMAIN stripped |-> IF stripped[i] = " " THEN "_" ELSE stripped[i]]
    IN IF base # <<>> THEN base ELSE <<"c", "h", "a", "r", "a", "c", "t", "e", "r">>

\* str.lower()
ToLower(s) ==
    LET low(c) == CASE c = "A" -> "a" [] c = "B" -> "b" [] c = "L" -> "l"
                    [] c = "M" -> "m" [] c = "U" -> "u" [] OTHER -> c
    IN [i \in DOMAIN s |-> low(s[i])]

-----------------------------------------------------------------------------
(* scripts/notion_sync.py: dotted paths *)

RECURSIVE get_by_path(_, _)
get_by_path(obj, path) ==
    IF path = <<>> THEN obj
    ELSE IF obj.t = "null" THEN Null
    ELSE IF ~IsDict(obj) THEN Null
    ELSE get_by_path(DictGet(obj.d, path[1]), Tail(path))

\* obj is the object's key -> value function; the result is the object after the call
RECURSIVE set_by_path(_, _, _)
set_by_path(d, path, value) ==
    IF Len(path) = 1 THEN DictSet(d, path[1], value)
    ELSE LET p == path[1]
             sub == IF p \notin DOMAIN d \/ ~IsDict(d[p]) THEN EmptyDict ELSE d[p].d
         IN DictSet(d, p, Dict(set_by_path(sub, Tail(path), value)))

-----------------------------------------------------------------------------
(* scripts/notion_sync.py: property conversion *)

TextRun(s) == [text |-> [content |-> s]]

\* a variant that leaves a number unset when float() fails
to_notion_prop_DropBadNumber(prop_type, value) ==
    IF value.t = "null" THEN Null
    ELSE CASE prop_type = "title" -> [title |-> <<TextRun(PyStr(value))>>]
           [] prop_type = "rich_text" -> [rich_text |-> <<TextRun(PyStr(value))>>]
           [] prop_type = "select" -> [select |-> [name |-> PyStr(value)]]
           [] prop_type = "multi_select" ->
                IF value.t = "list"
                THEN [multi_select |->
                        LET kept == SelectSeq(value.l, LAMBDA v : v.t # "null")
                        IN [i \in DOMAIN kept |-> [name |-> PyStr(kept[i])]]]
                ELSE [multi_select |-> <<[name |-> PyStr(value)]>>]
           [] prop_type = "number" ->
                IF PyFloat(value).ok THEN [number |-> Num(PyFloat(value).n)]
                ELSE Null
           [] prop_type = "checkbox" -> [checkbox |-> Bool(Truthy(value))]
           [] OTHER -> [rich_text |-> <<TextRun(PyStr(value))>>]

\* the payload for one property; Null stands for Python's None (leave unset)
to_notion_prop(prop_type, value) ==
    IF value.t = "null" THEN Null
    ELSE CASE prop_type = "title" -> [title |-> <<TextRun(PyStr(value))>>]
           [] prop_type = "rich_text" -> [rich_text |-> <<TextRun(PyStr(value))>>]
           [] prop_type = "select" -> [select |-> [name |-> PyStr(value)]]
           [] prop_type = "multi_select" ->
                IF value.t = "list"
                THEN [multi_select |->
                        LET kept == SelectSeq(value.l, LAMBDA v : v.t # "null")
                        IN [i \in DOMAIN kept |-> [name |-> PyStr(kept[i])]]]
                ELSE [multi_select |-> <<[name |-> PyStr(value)]>>]
           [] prop_type = "number" ->
                IF PyFloat(value).ok THEN [number |-> Num(PyFloat(value).n)]
                ELSE [number |-> Null]
           [] prop_type = "checkbox" -> [checkbox |-> Bool(Truthy(value))]
           [] OTHER -> [rich_text |-> <<TextRun(PyStr(value))>>]

\* "".join(x.get("plain_text", "") for x in arr) if arr else None
JoinRuns(arr) ==
    IF arr = <<>> THEN Null
    ELSE Str(Concat([i \in DOMAIN arr |-> arr[i].plain_text]))

\* prop_obj.get(key, default)
PropGet(po, key, default) == IF key \in DOMAIN po THEN po[key] ELSE default

\* a variant that reads a multi_select as its first option only
from_notion_prop_FirstOption(prop_type, po) ==
    CASE prop_type = "title" -> JoinRuns(PropGet(po, "title", <<>>))
      [] prop_type = "rich_text" -> JoinRuns(PropGet(po, "rich_text", <<>>))
      [] prop_type = "select" ->
            LET sel == PropGet(po, "select", Null)
            IN IF sel = Null THEN Null ELSE Str(sel.name)
      [] prop_type = "multi_select" ->
            LET ms == PropGet(po, "multi_select", <<>>)
            IN List([i \in DOMAIN ms \cap {1} |-> Str(ms[i].name)])
      [] prop_type = "number" -> PropGet(po, "number", Null)
      [] prop_type = "checkbox" -> PropGet(po, "checkbox", Null)
      [] OTHER -> JoinRuns(PropGet(po, "rich_text", <<>>))

from_notion_prop(prop_type, po) ==
    CASE prop_type = "title" -> JoinRuns(PropGet(po, "title", <<>>))
      [] prop_type = "rich_text" -> JoinRuns(PropGet(po, "rich_text", <<>>))
      [] prop_type = "select" ->
            LET sel == PropGet(po, "select", Null)
            IN IF sel = Null THEN Null ELSE Str(sel.name)
      [] prop_type = "multi_select" ->
            LET ms == PropGet(po, "multi_select", <<>>)
            IN List([i \in DOMAIN ms |-> Str(ms[i].name)])
      [] prop_type = "number" -> PropGet(po, "number", Null)
      [] prop_type = "checkbox" -> PropGet(po, "checkbox", Null)
      [] OTHER -> JoinRuns(PropGet(po, "rich_text", <<>>))

\* mapping rows are [prop, json, type]; json is the dotted path split at "."
RECURSIVE build_properties_from_json(_, _)
build_properties_from_json(entry, mp) ==
    IF mp = <<>> THEN [k \in {} |-> Null]
    ELSE LET spec == mp[Len(mp)]
             rest == build_properties_from_json(entry, SubSeq(mp, 1, Len(mp) - 1))
             payload == to_notion_prop(spec.type, get_by_path(entry, spec.json))
         IN IF payload # Null THEN DictSet(rest, spec.prop, payload) ELSE rest

\* page.properties as the mapped dotted-path document
RECURSIVE build_json_from_page(_, _)
build_json_from_page(props, mp) ==
    IF mp = <<>> THEN EmptyDict
    ELSE LET spec == mp[Len(mp)]
             out == build_json_from_page(props, SubSeq(mp, 1, Len(mp) - 1))
         IN IF spec.prop \notin DOMAIN props THEN out
            ELSE set_by_path(out, spec.json, from_notion_prop(spec.type, props[spec.prop]))

\* pull_from_notion's merge loop: every non-null mapped value is written into current
RECURSIVE MergeMapped(_, _, _)
MergeMapped(current, data, mp) ==
    IF mp = <<>> THEN current
    ELSE LET val == get_by_path(Dict(data), mp[1].json)
             next == IF val # Null THEN set_by_path(current, mp[1].json, val) ELSE current
         IN MergeMapped(next, data, Tail(mp))

-----------------------------------------------------------------------------
(* The remote store behind notion_client: pages hold typed properties *)

\* the property object a page returns for a property sent in a payload
StoreProp(pl) ==
    CASE "title" \in DOMAIN pl ->
            [title |-> [i \in DOMAIN pl.title |-> [plain_text |-> pl.title[i].text.content]]]
      [] "rich_text" \in DOMAIN pl ->
            [rich_text |-> [i \in DOMAIN pl.rich_text |->
                                [plain_text |-> pl.rich_text[i].text.content]]]
      [] OTHER -> pl

\* notion.pages.create(parent={"database_id": db_id}, properties=props)
PagesCreate(pages, props) ==
    Append(pages, [id |-> Len(pages) + 1,
                   props |-> [k \in DOMAIN props |-> StoreProp(props[k])]])

\* notion.pages.update(page_id=page_id, properties=props): unsent properties stay
PagesUpdate(pages, page_id, props) ==
    [i \in DOMAIN pages |->
        IF pages[i].id # page_id THEN pages[i]
        ELSE [pages[i] EXCEPT !.props =
                [k \in (DOMAIN pages[i].props) \cup (DOMAIN props) |->
                    IF k \in DOMAIN props THEN StoreProp(props[k]) ELSE pages[i].props[k]]]]

\* the text of a page's title property "Name"
TitleOf(pg) ==
    IF "Name" \in DOMAIN pg.props /\ "title" \in DOMAIN pg.props["Name"]
    THEN Concat([i \in DOMAIN pg.props["Name"].title |-> pg.props["Name"].title[i].plain_text])
    ELSE <<>>

\* notion.databases.query(filter={"property": "Name", "title": {"equals": name}})
QueryByName(pages, name) == SelectSeq(pages, LAMBDA pg : TitleOf(pg) = name)

\* the remote's page size for databases.query
RemotePageSize == 2

\* notion.databases.query(database_id=db_id, start_cursor=start_cursor)
QueryPage(pages, start_cursor) ==
    LET last == IF start_cursor + RemotePageSize - 1 < Len(pages)
                THEN start_cursor + RemotePageSize - 1 ELSE Len(pages)
    IN [results |-> SubSeq(pages, start_cursor, last),
        has_more |-> last < Len(pages),
        next_cursor |-> last + 1]

-----------------------------------------------------------------------------
(* scripts/notion_sync.py: preconditions *)

\* get_env_client_for(category) then load_mapping(category=category):
\* the exception raised, "" when none
SyncPrecondition(e, category) ==
    IF ~e.token THEN "NOTION_TOKEN is not set"
    ELSE IF category \notin {"characters", "creatures", "realms", "plots", "magic"}
    THEN "Unsupported category"
    ELSE IF category \notin e.dbs THEN "DB_ID is not set"
    ELSE IF category \notin CATEGORY_DIRS THEN "KeyError"
    ELSE IF category \notin e.maps THEN "Mapping file not found"
    ELSE ""

-----------------------------------------------------------------------------
(* scripts/notion_sync.py: push_to_notion *)

\* the entry push sends for file p: source.file and source.category are set in
\* memory; ok is FALSE when entry["source"] is not an object (TypeError)
PushEntry(entry, p, category) ==
    LET withSrc == IF "source" \in DOMAIN entry THEN entry
                   ELSE DictSet(entry, "source", Dict(EmptyDict))
        src == withSrc["source"]
    IN IF ~IsDict(src) THEN [ok |-> FALSE, entry |-> entry]
       ELSE LET s1 == DictSet(src.d, "file", Str(p))
                s2 == IF "category" \in DOMAIN s1 THEN s1
                      ELSE DictSet(s1, "category", Str(<<category>>))
            IN [ok |-> TRUE, entry |-> DictSet(withSrc, "source", Dict(s2))]

\* name = entry.get("name") or p.stem
PushName(entry, p) ==
    IF Truthy(DictGet(entry, "name")) THEN DictGet(entry, "name") ELSE Str(Stem(p))

\* one iteration of the loop over files; st is [pages, created, updated, log];
\* remoteFails says that a remote call of this iteration raises
PushOne(st, files, p, mp, category, remoteFails) ==
    LET skip(outcome) ==
            [st EXCEPT !.log = Append(@, [file |-> p, outcome |-> outcome, built |-> FALSE,
                                          entry |-> EmptyDict, props |-> EmptyDict,
                                          name |-> Null, page |-> 0])]
    IN IF ~files[p].ok THEN skip("failed")
       ELSE IF ~IsDict(files[p].json) THEN skip("skipped")
       ELSE LET entry == files[p].json.d
                name == PushName(entry, p)
                pe == PushEntry(entry, p, category)
            IN IF ~pe.ok THEN skip("failed")
               ELSE LET props == build_properties_from_json(Dict(pe.entry), mp)
                        res == IF IsStr(name) THEN QueryByName(st.pages, name.s) ELSE <<>>
                        entryLog(outcome, page) ==
                            [file |-> p, outcome |-> outcome, built |-> TRUE,
                             entry |-> pe.entry, props |-> props,
                             name |-> name, page |-> page]
                    IN IF remoteFails \/ ~IsStr(name)
                       THEN [st EXCEPT !.log = Append(@, entryLog("failed", 0))]
                       ELSE IF res # <<>>
                       THEN [pages |-> PagesUpdate(st.pages, res[1].id, props),
                             created |-> st.created,
                             updated |-> st.updated + 1,
                             log |-> Append(st.log, entryLog("updated", res[1].id))]
                       ELSE [pages |-> PagesCreate(st.pages, props),
                             created |-> st.created + 1,
                             updated |-> st.updated,
                             log |-> Append(st.log, entryLog("created", Len(st.pages) + 1))]

\* a variant in which the exception of a remote call leaves the loop
RECURSIVE PushLoop_AbortOnFailure(_, _, _, _, _, _, _)
PushLoop_AbortOnFailure(st, files, order, i, mp, category, failAt) ==
    IF i > Len(order) THEN st
    ELSE IF i = failAt THEN PushOne(st, files, order[i], mp, category, TRUE)
    ELSE PushLoop_AbortOnFailure(PushOne(st, files, order[i], mp, category, FALSE),
                                 files, order, i + 1, mp, category, failAt)

\* the loop "for p in files", from the i-th file on; failAt is the index of the
\* file whose remote call raises (0: none does)
RECURSIVE PushLoop(_, _, _, _, _, _, _)
PushLoop(st, files, order, i, mp, category, failAt) ==
    IF i > Len(order) THEN st
    ELSE PushLoop(PushOne(st, files, order[i], mp, category, i = failAt),
                  files, order, i + 1, mp, category, failAt)

push_to_notion(files, pages, mp, category, failAt) ==
    LET st == PushLoop([pages |-> pages, created |-> 0, updated |-> 0, log |-> <<>>],
                       files, list_files_for(files, category), 1, mp, category, failAt)
    IN [pages |-> st.pages, log |-> st.log,
        result |-> [created |-> st.created, updated |-> st.updated,
                    total |-> st.created + st.updated]]

-----------------------------------------------------------------------------
(* scripts/notion_sync.py: pull_from_notion *)

\* the pagination loop: results of every page of the result set, in order
RECURSIVE Paginate(_, _, _)
Paginate(pages, start_cursor, results) ==
    LET page == QueryPage(pages, start_cursor)
        got == results \o page.results
    IN IF ~page.has_more THEN got ELSE Paginate(pages, page.next_cursor, got)

Unnamed == <<"U", "n", "n", "a", "m", "e", "d">>

\* name = data.get("name") or "Unnamed"
PullName(data) ==
    IF Truthy(DictGet(data, "name")) THEN DictGet(data, "name") ELSE Str(Unnamed)

\* the first file of the category whose JSON name equals name; <<>> when none
find_file_by_name_or_source(files, name, category) ==
    LET hits == SelectSeq(list_files_for(files, category),
                          LAMBDA p : /\ files[p].ok
                                     /\ IsDict(files[p].json)
                                     /\ DictGet(files[p].json.d, "name") = name)
    IN IF hits = <<>> THEN <<>> ELSE hits[1]

\* a variant that takes the record's source.file without looking for the file
PullDest_NoExistenceCheck(files, data, name, category) ==
    LET file_path == get_by_path(Dict(data), <<"source", "file">>)
        dest == IF Truthy(file_path) THEN file_path.s ELSE <<>>
    IN IF dest # <<>> THEN dest
       ELSE LET found == find_file_by_name_or_source(files, name, category)
            IN IF found # <<>> THEN found
               ELSE PathIn(category, safe_filename(name.s))

\* the destination of one pulled record
PullDest(files, data, name, category) ==
    LET file_path == get_by_path(Dict(data), <<"source", "file">>)
        dest == IF Truthy(file_path) THEN file_path.s ELSE <<>>
    IN IF dest # <<>> /\ dest \in DOMAIN files THEN dest
       ELSE LET found == find_file_by_name_or_source(files, name, category)
            IN IF found # <<>> THEN found
               ELSE PathIn(category, safe_filename(name.s))

\* a variant that starts every destination from the skeleton of a new file
PullCurrent_Overwrite(files, dest, name, category) ==
    [k \in {"id", "name", "source"} |->
        CASE k = "id" -> Str(ToLower(safe_filename(PyStr(name))))
          [] k = "name" -> name
          [] k = "source" -> Dict([j \in {"file", "category"} |->
                IF j = "file" THEN Str(dest) ELSE Str(<<category>>)])]

\* the object the mapped fields are merged into
PullCurrent(files, dest, name, category) ==
    IF dest \in DOMAIN files
    THEN IF files[dest].ok /\ IsDict(files[dest].json) THEN files[dest].json.d
         ELSE EmptyDict
    ELSE [k \in {"id", "name", "source"} |->
            CASE k = "id" -> Str(ToLower(safe_filename(PyStr(name))))
              [] k = "name" -> name
              [] k = "source" -> Dict([j \in {"file", "category"} |->
                    IF j = "file" THEN Str(dest) ELSE Str(<<category>>)])]

\* one iteration of the loop over results; st is [files, written, log];
\* saveFails says that save_json raises for this record
PullOne(st, pg, mp, category, saveFails) ==
    LET data == build_json_from_page(pg.props, mp)
        name == PullName(data)
        file_path == get_by_path(Dict(data), <<"source", "file">>)
        bad == ~IsStr(name) \/ (Truthy(file_path) /\ ~IsStr(file_path))
    IN IF bad
       THEN [st EXCEPT !.log = Append(@, [page |-> pg.id, outcome |-> "failed",
                                          resolved |-> FALSE, dest |-> <<>>,
                                          data |-> data, before |-> st.files])]
       ELSE LET dest == PullDest(st.files, data, name, category)
                current == PullCurrent(st.files, dest, name, category)
                merged == MergeMapped(current, data, mp)
            IN IF saveFails
               THEN [st EXCEPT !.log = Append(@, [page |-> pg.id, outcome |-> "failed",
                                                  resolved |-> TRUE, dest |-> dest,
                                                  data |-> data, before |-> st.files])]
               ELSE [files |-> [q \in (DOMAIN st.files) \cup {dest} |->
                                    IF q = dest THEN Json(Dict(merged)) ELSE st.files[q]],
                     written |-> st.written + 1,
                     log |-> Append(st.log, [page |-> pg.id, outcome |-> "written",
                                             resolved |-> TRUE, dest |-> dest,
                                             data |-> data, before |-> st.files])]

RECURSIVE PullLoop(_, _, _, _, _, _)
PullLoop(st, results, i, mp, category, failAt) ==
    IF i > Len(results) THEN st
    ELSE PullLoop(PullOne(st, results[i], mp, category, i = failAt),
                  results, i + 1, mp, category, failAt)

pull_from_notion(files, pages, mp, category, failAt) ==
    LET results == Paginate(pages, 1, <<>>)
        st == PullLoop([files |-> files, written |-> 0, log |-> <<>>],
                       results, 1, mp, category, failAt)
    IN [files |-> st.files, log |-> st.log,
        result |-> [written |-> st.written, pages |-> Len(results)]]

-----------------------------------------------------------------------------
(* Sample data of the sync model *)

\* the category the sync model runs on (push_characters_to_notion and
\* pull_characters_from_notion; the creatures and realms wrappers differ in the
\* category argument only)
Category == "characters"

Ly == <<"L", "y">>
Ab == <<"A", " ", "b">>

FileLy == PathIn(Category, Ly)
FileLy2 == PathIn(Category, <<"L", "y", "2">>)
FileAb == PathIn(Category, <<"A", "_", "b">>)
FileIndex == PathIn(Category, <<"_", "i", "n", "d", "e", "x">>)
FileBad == PathIn(Category, <<"b", "a", "d">>)
FileOutside == <<"lore/creatures/formatted/", "L", "y", ".json">>
FileOutside2 == <<"lore/creatures/formatted/", "b", ".json">>

\* the raw document the normalizer read: source.file of a canonical entity
RawFile == <<"lore/characters/characters.json">>

\* a canonical character as the normalizer writes it, cut down to the fields
\* the sample mappings name plus two they do not (notes, appearance.hair)
BaseEntity(name, file) ==
    [k \in {"name", "court", "titles", "age", "alive", "role", "appearance", "notes", "source"} |->
        CASE k = "name" -> Str(name)
          [] k = "court" -> Str(<<"S">>)
          [] k = "titles" -> List(<<Str(<<"a">>), Str(<<"b">>)>>)
          [] k = "age" -> Num(3)
          [] k = "alive" -> Bool(TRUE)
          [] k = "role" -> Str(<<"r">>)
          [] k = "appearance" -> Dict([j \in {"eyes", "hair"} |->
                                        IF j = "eyes" THEN Str(<<"g">>) ELSE Str(<<"h">>)])
          [] k = "notes" -> List(<<Str(<<"n">>)>>)
          [] k = "source" -> Dict([j \in {"file", "category"} |->
                                    IF j = "file" THEN Str(file) ELSE Str(<<Category>>)])]

\* values a field of a local file can hold instead of the base value
Variations ==
    {[k |-> "court", v |-> Null], [k |-> "court", v |-> Num(5)],
     [k |-> "titles", v |-> Str(<<"a">>)], [k |-> "titles", v |-> List(<<>>)],
     [k |-> "titles", v |-> List(<<Str(<<"a">>), Null>>)], [k |-> "titles", v |-> Null],
     [k |-> "age", v |-> Str(<<"3">>)], [k |-> "age", v |-> Str(<<"x">>)],
     [k |-> "age", v |-> Null], [k |-> "age", v |-> Num(0)],
     [k |-> "alive", v |-> Bool(FALSE)], [k |-> "alive", v |-> Str(<<"y">>)],
     [k |-> "alive", v |-> Null],
     [k |-> "role", v |-> Num(5)], [k |-> "role", v |-> Str(<<>>)],
     [k |-> "appearance", v |-> Null], [k |-> "appearance", v |-> Str(<<"h">>)],
     [k |-> "appearance", v |-> Dict([j \in {"eyes", "hair"} |->
                                        IF j = "eyes" THEN Null ELSE Str(<<"h">>)])],
     [k |-> "source", v |-> Null], [k |-> "source", v |-> Dict(EmptyDict)],
     [k |-> "source", v |-> Dict([j \in {"file"} |-> Str(FileLy)])],
     [k |-> "name", v |-> Null], [k |-> "name", v |-> Str(<<>>)],
     [k |-> "name", v |-> Str(Ab)]}

EntitySamples ==
    {BaseEntity(Ly, RawFile)}
        \cup {DictSet(BaseEntity(Ly, RawFile), x.k, x.v) : x \in Variations}
        \cup {[k \in (DOMAIN BaseEntity(Ly, RawFile)) \ {"source"} |-> BaseEntity(Ly, RawFile)[k]],
              [k \in (DOMAIN BaseEntity(Ly, RawFile)) \ {"name"} |-> BaseEntity(Ly, RawFile)[k]]}

\* what else the local storage holds next to the first file
SecondFiles ==
    {EmptyDict,
     [p \in {FileIndex} |-> Json(List(<<>>))],
     [p \in {FileBad} |-> BadJson],
     [p \in {FileLy2} |-> Json(Dict(DictSet(BaseEntity(Ly, RawFile), "court", Str(<<"N">>))))],
     [p \in {FileAb} |-> Json(Dict(BaseEntity(Ab, RawFile)))],
     [p \in {FileOutside} |-> Json(Dict(BaseEntity(Ly, RawFile)))]}

Runs(s) == <<[plain_text |-> s]>>

\* a page made by hand in the remote store: other values than the local ones
StalePage(id, name, props) ==
    [id |-> id,
     props |-> [k \in {"Name", "Court", "Titles", "Age", "Alive", "Eyes"} \cup DOMAIN props |->
        IF k \in DOMAIN props THEN props[k]
        ELSE CASE k = "Name" -> [title |-> Runs(name)]
               [] k = "Court" -> [select |-> [name |-> <<"N">>]]
               [] k = "Titles" -> [multi_select |-> <<[name |-> <<"x">>]>>]
               [] k = "Age" -> [number |-> Num(9)]
               [] k = "Alive" -> [checkbox |-> Bool(FALSE)]
               [] k = "Eyes" -> [rich_text |-> Runs(<<"b">>)]]]

\* a page with every property empty, as the remote returns it
EmptyPage(id) ==
    [id |-> id,
     props |-> [k \in {"Name", "Court", "Titles", "Age", "Alive", "Eyes", "Source File"} |->
        CASE k = "Name" -> [title |-> <<>>]
          [] k = "Court" -> [select |-> Null]
          [] k = "Titles" -> [multi_select |-> <<>>]
          [] k = "Age" -> [number |-> Null]
          [] k = "Alive" -> [checkbox |-> Bool(FALSE)]
          [] k = "Eyes" -> [rich_text |-> <<>>]
          [] k = "Source File" -> [rich_text |-> <<>>]]]

SourceFileProp(path) == [p \in {"Source File"} |-> [rich_text |-> Runs(path)]]

RemoteSamples ==
    {<<>>,
     <<StalePage(1, Ly, EmptyDict)>>,
     <<StalePage(1, Ly, EmptyDict), StalePage(2, Ly, SourceFileProp(FileLy)),
       StalePage(3, Ab, EmptyDict)>>,
     <<StalePage(1, Ab, SourceFileProp(FileOutside))>>,
     <<EmptyPage(1), StalePage(2, Ab, EmptyDict), StalePage(3, <<"A", "_", "b">>, EmptyDict)>>,
     <<StalePage(1, Ly, SourceFileProp(FileOutside)),
       StalePage(2, <<".", ".", "/", "b">>, SourceFileProp(FileOutside2))>>}

MapRow(prop, json, type) == [prop |-> prop, json |-> json, type |-> type]

\* scripts/notion_mappings/characters.json as load_mapping returns it
FullMapping ==
    <<MapRow("Name", <<"name">>, "title"),
      MapRow("Court", <<"court">>, "select"),
      MapRow("Titles", <<"titles">>, "multi_select"),
      MapRow("Age", <<"age">>, "number"),
      MapRow("Alive", <<"alive">>, "checkbox"),
      MapRow("Role", <<"role">>, "text"),
      MapRow("Eyes", <<"appearance", "eyes">>, "rich_text"),
      MapRow("Source File", <<"source", "file">>, "rich_text")>>

\* the same without the source.file row
PlainMapping == SubSeq(FullMapping, 1, Len(FullMapping) - 1)

MappingSamples == {FullMapping, PlainMapping}

AllCategories == {"characters", "creatures", "magic", "plots", "realms"}

EnvOk == [token |-> TRUE, dbs |-> AllCategories, maps |-> CATEGORY_DIRS]

EnvSamples ==
    {EnvOk, [EnvOk EXCEPT !.token = FALSE], [EnvOk EXCEPT !.dbs = @ \ {Category}],
     [EnvOk EXCEPT !.maps = @ \ {Category}]}

-----------------------------------------------------------------------------
(* app.py: the index and crosslink builder *)

CATEGORIES == <<"characters", "creatures", "magic", "plots", "realms">>

\* sorted(folder_path.glob("*.json")): the stems of a directory, the least first
RECURSIVE SortStems(_)
SortStems(S) ==
    IF S = {} THEN <<>>
    ELSE LET m == CHOOSE a \in S : \A b \in S \ {a} : StrLess(a \o <<".">>, b \o <<".">>)
         IN <<m>> \o SortStems(S \ {m})

\* str(file.relative_to(LORE_ROOT))
RelativeFile(category, inFormatted, stem) ==
    <<category \o (IF inFormatted THEN "/formatted/" ELSE "/")>> \o stem \o <<".json">>

IndexEntry(name, file, category) == [name |-> name, file |-> file, category |-> category]

\* the loop over data[category]: an item that is no object raises and ends the
\* file, the entries appended before it stay
RECURSIVE BundleEntries(_, _, _)
BundleEntries(items, file, category) ==
    IF items = <<>> THEN <<>>
    ELSE IF ~IsDict(items[1]) THEN <<>>
    ELSE LET entry_name == DictGet(items[1].d, "name")
             rest == BundleEntries(Tail(items), file, category)
         IN IF ~Truthy(entry_name) THEN rest
            ELSE <<IndexEntry(entry_name, file, category)>> \o rest

\* the body of the loop over files: the entries one file adds to the index
FileEntries(f, stem, file, category) ==
    IF ~f.ok THEN <<>>
    ELSE IF IsDict(f.json) /\ category \in DOMAIN f.json.d
    THEN IF f.json.d[category].t = "list"
         THEN BundleEntries(f.json.d[category].l, file, category)
         ELSE <<>>
    ELSE IF ~IsDict(f.json) THEN <<>>
    ELSE LET entry_name == IF Truthy(DictGet(f.json.d, "name"))
                           THEN DictGet(f.json.d, "name") ELSE Str(stem)
         IN <<IndexEntry(entry_name, file, category)>>

\* l is lore[category]: [hasFormatted, formatted, hasRaw, raw]
build_category_index(l, category) ==
    LET folder == IF l.hasFormatted THEN l.formatted ELSE l.raw
        order == SortStems(DOMAIN folder)
    IN IF ~l.hasFormatted /\ ~l.hasRaw THEN <<>>
       ELSE Concat([i \in DOMAIN order |->
                FileEntries(folder[order[i]], order[i],
                            RelativeFile(category, l.hasFormatted, order[i]), category)])

\* str(index_file.relative_to(LORE_ROOT))
IndexFileOf(category) == "indexes/" \o category \o "_index.json"

\* a variant of the crosslink loop that walks the categories from the last
RECURSIVE NameToCategory_Reversed(_, _, _)
NameToCategory_Reversed(idx, i, acc) ==
    IF i > Len(CATEGORIES) THEN acc
    ELSE LET category == CATEGORIES[Len(CATEGORIES) + 1 - i]
             entries == idx[category]
             names == {entries[k].name : k \in DOMAIN entries}
             links == [k \in DOMAIN entries |->
                          [name |-> entries[k].name,
                           link |-> [category |-> category, file |-> entries[k].file]]]
             add(n) == LET mine == SelectSeq(links, LAMBDA x : x.name = n)
                       IN [k \in DOMAIN mine |-> mine[k].link]
         IN NameToCategory_Reversed(idx, i + 1,
                [n \in (DOMAIN acc) \cup names |->
                    (IF n \in DOMAIN acc THEN acc[n] ELSE <<>>)
                        \o (IF n \in names THEN add(n) ELSE <<>>)])

\* the loop that fills name_to_category from the index files, from the i-th
\* category of CATEGORIES on
RECURSIVE NameToCategory(_, _, _)
NameToCategory(idx, i, acc) ==
    IF i > Len(CATEGORIES) THEN acc
    ELSE LET category == CATEGORIES[i]
             entries == idx[category]
             names == {entries[k].name : k \in DOMAIN entries}
             links == [k \in DOMAIN entries |->
                          [name |-> entries[k].name,
                           link |-> [category |-> category, file |-> entries[k].file]]]
             add(n) == LET mine == SelectSeq(links, LAMBDA x : x.name = n)
                       IN [k \in DOMAIN mine |-> mine[k].link]
         IN NameToCategory(idx, i + 1,
                [n \in (DOMAIN acc) \cup names |->
                    (IF n \in DOMAIN acc THEN acc[n] ELSE <<>>)
                        \o (IF n \in names THEN add(n) ELSE <<>>)])

\* crosslinks[name] = cats if len(cats) > 1
Crosslinks(name_to_category) ==
    [n \in {x \in DOMAIN name_to_category : Len(name_to_category[x]) > 1} |->
        name_to_category[n]]

\* the index files and the master index generate_master_index writes
generate_master_index(lr) ==
    LET idx == [c \in Range(CATEGORIES) |-> build_category_index(lr[c], c)]
    IN [indexes |-> idx,
        master |-> [categories |-> [c \in Range(CATEGORIES) |->
                                        [index_file |-> IndexFileOf(c),
                                         entry_count |-> Len(idx[c])]],
                    crosslinks |-> Crosslinks(NameToCategory(idx, 1, EmptyDict))]]

-----------------------------------------------------------------------------
(* The sync state machine: push and pull of one category *)

-----------------------------------------------------------------------------
(* app.py: the import of the sync module and the sync handlers *)

\* the names app.py imports from scripts.notion_sync in one statement
ImportedSyncNames ==
    {"CHAR_MAPPING_PATH"}
        \cup {"push_" \o c \o "_to_notion" : c \in AllCategories}
        \cup {"pull_" \o c \o "_from_notion" : c \in AllCategories}
        \cup {"ensure_" \o c \o "_schema" : c \in AllCategories}

\* the names scripts/notion_sync.py defines for the three categories it knows
NotionSyncNames ==
    {"CHAR_MAPPING_PATH", "CREATURES_MAPPING_PATH", "REALMS_MAPPING_PATH",
     "push_to_notion", "pull_from_notion", "ensure_schema"}
    \cup {"push_" \o c \o "_to_notion" : c \in CATEGORY_DIRS}
    \cup {"pull_" \o c \o "_from_notion" : c \in CATEGORY_DIRS}
    \cup {"ensure_" \o c \o "_schema" : c \in CATEGORY_DIRS}

\* the import statement succeeds only when every imported name is defined;
\* when it raises, every push_*_full, pull_*_full and ensure_*_schema is None
SyncModuleImported == ImportedSyncNames \subseteq NotionSyncNames

\* the truth value of push_<c>_full, pull_<c>_full or ensure_<c>_schema
FullFunction(kind, c) == SyncModuleImported

\* category.capitalize()
Capitalize(category) ==
    CASE category = "characters" -> "Characters"
      [] category = "creatures" -> "Creatures"
      [] category = "magic" -> "Magic"
      [] category = "plots" -> "Plots"
      [] category = "realms" -> "Realms"

ErrorResult(msg) == [kind |-> "error", msg |-> msg, calls |-> 0]

\* the loop of sync_index_to_notion over the index entries; st is
\* [pages, synced, calls]; with notion = None the attribute access raises
\* inside the try and the entry is skipped
RECURSIVE SyncEntries(_, _, _, _)
SyncEntries(st, entries, category, hasClient) ==
    IF entries = <<>> THEN st
    ELSE LET entry == entries[1]
             res == QueryByName(st.pages, entry.name.s)
             filePath == [p \in {"File Path"} |-> [rich_text |-> <<TextRun(entry.file)>>]]
             created == [p \in {"Name", "Category", "File Path"} |->
                            CASE p = "Name" -> [title |-> <<TextRun(entry.name.s)>>]
                              [] p = "Category" -> [select |-> [name |-> <<Capitalize(category)>>]]
                              [] p = "File Path" -> filePath[p]]
             next == IF ~hasClient THEN st
                     ELSE IF ~IsStr(entry.name)
                     THEN [st EXCEPT !.calls = @ + 1]
                     ELSE IF res # <<>>
                     THEN [pages |-> PagesUpdate(st.pages, res[1].id, filePath),
                           synced |-> st.synced + 1, calls |-> st.calls + 2]
                     ELSE [pages |-> PagesCreate(st.pages, created),
                           synced |-> st.synced + 1, calls |-> st.calls + 2]
         IN SyncEntries(next, Tail(entries), category, hasClient)

\* sync_index_to_notion(category): [result, pages]; e is the environment, idx the
\* index files present, pages the category's remote database
sync_index_to_notion(e, idx, pages, category) ==
    IF category \notin e.dbs
    THEN [result |-> ErrorResult("No Notion DB configured"), pages |-> pages]
    ELSE IF category \notin DOMAIN idx
    THEN [result |-> ErrorResult("Index file not found"), pages |-> pages]
    ELSE LET st == SyncEntries([pages |-> pages, synced |-> 0, calls |-> 0],
                               idx[category], category, e.token)
         IN [result |-> [kind |-> "status", count |-> st.synced, calls |-> st.calls],
             pages |-> st.pages]

\* the key order of NOTION_DATABASES
NOTION_DATABASES == <<"characters", "plots", "magic", "creatures", "realms">>

\* the order in which publish-all, pull-all and the scheduler's internal batches
\* take the categories
BatchOrder == <<"characters", "creatures", "realms", "magic", "plots">>

\* the remote database of a category
DbOf(c, d, o) == IF c = Category THEN d ELSE o[c]

\* the state of a batch after the push of category c returned r
AfterPush(st, c, r) ==
    [st EXCEPT !.db = IF c = Category THEN r.pages ELSE @,
               !.others = IF c = Category THEN @ ELSE [@ EXCEPT ![c] = r.pages],
               !.results = DictSet(@, c, [kind |-> "ok", value |-> r.result, calls |-> 1])]

\* the state of a batch after the pull of category c returned r
AfterPull(st, c, r) ==
    [st EXCEPT !.fs = r.files,
               !.results = DictSet(@, c, [kind |-> "ok", value |-> r.result, calls |-> 1])]

\* one category of publish-all / pull-all or of an internal batch;
\* st is [fs, db, others, results, raised].  oneTry: the internal batches wrap
\* all categories in one try, the routes wrap each category in its own
BatchStep(st, c, kind, e, mp, oneTry) ==
    IF st.raised \/ ~FullFunction(kind, c) \/ c \notin e.dbs THEN st
    ELSE LET pre == SyncPrecondition(e, c)
             pages == DbOf(c, st.db, st.others)
         IN IF pre # ""
            THEN IF oneTry
                 THEN [st EXCEPT !.results = DictSet(@, "error", ErrorResult(pre)),
                                 !.raised = TRUE]
                 ELSE [st EXCEPT !.results = DictSet(@, c, ErrorResult(pre))]
            ELSE IF kind = "push"
            THEN AfterPush(st, c, push_to_notion(st.fs, pages, mp, c, 0))
            ELSE AfterPull(st, c, pull_from_notion(st.fs, pages, mp, c, 0))

RECURSIVE BatchLoop(_, _, _, _, _, _)
BatchLoop(st, i, kind, e, mp, oneTry) ==
    IF i > Len(BatchOrder) THEN st
    ELSE BatchLoop(BatchStep(st, BatchOrder[i], kind, e, mp, oneTry),
                   i + 1, kind, e, mp, oneTry)

-----------------------------------------------------------------------------
(* Sample data of the index model *)

\* a category without any directory
NoDir == [hasFormatted |-> FALSE, formatted |-> EmptyDict, hasRaw |-> FALSE, raw |-> EmptyDict]

NoLore == [c \in AllCategories |-> NoDir]

\* a canonical entity file, cut down to its name
EntityDoc(name) == Json(Dict([k \in {"name", "tags"} |->
                                IF k = "name" THEN Str(name) ELSE List(<<>>)]))

\* an entity file without a name field
NamelessDoc == Json(Dict([k \in {"tags"} |-> List(<<>>)]))

\* a raw document {"<category>": [...]}; an empty name stands for an item without one
Bundle(category, names) ==
    Json(Dict([k \in {category} |->
        List([i \in DOMAIN names |->
                IF names[i] = <<>> THEN Dict(EmptyDict)
                ELSE Dict([j \in {"name"} |-> Str(names[i])])])]))

StemAll == <<"a", "l", "l">>
StemIndex == <<"_", "i", "n", "d", "e", "x">>
StemBad == <<"b", "a", "d">>
StemLy2 == <<"L", "y", "2">>
StemAb == <<"A", "_", "b">>

\* formatted holds the entity Ly and the normalizer's _index.json; raw holds another
LoreFormatted(c) ==
    [hasFormatted |-> TRUE,
     formatted |-> [st \in {Ly, StemIndex} |-> IF st = Ly THEN EntityDoc(Ly) ELSE Json(List(<<>>))],
     hasRaw |-> TRUE,
     raw |-> [st \in {StemAll} |-> Bundle(c, <<Ab>>)]]

\* formatted exists and holds no document; raw holds a bundle
LoreEmptyFormatted(c) ==
    [hasFormatted |-> TRUE, formatted |-> EmptyDict,
     hasRaw |-> TRUE, raw |-> [st \in {StemAll} |-> Bundle(c, <<Ly, <<>>, Ab>>)]]

\* no formatted directory; raw holds a bundle, an unreadable file and a nameless entity
LoreRawOnly(c) ==
    [hasFormatted |-> FALSE, formatted |-> EmptyDict,
     hasRaw |-> TRUE,
     raw |-> [st \in {StemAll, StemBad, StemAb} |->
                CASE st = StemAll -> Bundle(c, <<Ly, <<>>>>)
                  [] st = StemBad -> BadJson
                  [] st = StemAb -> NamelessDoc]]

\* formatted holds two files with the same name
LoreDuplicate(c) ==
    [hasFormatted |-> TRUE,
     formatted |-> [st \in {Ly, StemLy2} |-> EntityDoc(Ly)],
     hasRaw |-> TRUE, raw |-> EmptyDict]

\* formatted holds another entity and an unreadable file
LoreOther(c) ==
    [hasFormatted |-> TRUE,
     formatted |-> [st \in {StemAb, StemBad} |-> IF st = StemAb THEN EntityDoc(Ab) ELSE BadJson],
     hasRaw |-> TRUE, raw |-> EmptyDict]

LoreSamples ==
    {lr \in [AllCategories -> {"none", "formatted", "empty", "raw", "duplicate", "other"}] :
        /\ lr["creatures"] \in {"none", "formatted", "raw"}
        /\ \A c \in {"magic", "plots", "realms"} : lr[c] \in {"none", "formatted"}}

LoreOf(lr) ==
    [c \in AllCategories |->
        CASE lr[c] = "none" -> NoDir
          [] lr[c] = "formatted" -> LoreFormatted(c)
          [] lr[c] = "empty" -> LoreEmptyFormatted(c)
          [] lr[c] = "raw" -> LoreRawOnly(c)
          [] lr[c] = "duplicate" -> LoreDuplicate(c)
          [] lr[c] = "other" -> LoreOther(c)]

-----------------------------------------------------------------------------
(* The formatters (scripts/format_*.py): text                              *)
(*                                                                         *)
(* The raw documents the formatters read keep the order of their keys: an   *)
(* object is a sequence of <<key, value>> pairs with distinct keys, and a   *)
(* key is a Python string like any other.                                   *)

ODict(kv) == [t |-> "odict", kv |-> kv]
EmptyODict == ODict(<<>>)
IsODict(v) == v.t = "odict"
IsList(v) == v.t = "list"

OKeys(o) == [i \in DOMAIN o.kv |-> o.kv[i][1]]
OHas(o, k) == \E i \in DOMAIN o.kv : o.kv[i][1] = k

\* dict.get(k): None when the key is missing
OGet(o, k) ==
    IF OHas(o, k) THEN o.kv[CHOOSE i \in DOMAIN o.kv : o.kv[i][1] = k][2] ELSE Null

\* d[k] = v: an existing key keeps its place, a new key goes last
OSet(o, k, v) ==
    IF OHas(o, k)
    THEN ODict([i \in DOMAIN o.kv |-> IF o.kv[i][1] = k THEN <<k, v>> ELSE o.kv[i]])
    ELSE ODict(Append(o.kv, <<k, v>>))

\* a or b
Or(a, b) == IF Truthy(a) THEN a ELSE b

UpperAlpha ==
    <<"A", "B", "C", "D", "E", "F", "G", "H", "I", "J", "K", "L", "M",
      "N", "O", "P", "Q", "R", "S", "T", "U", "V", "W", "X", "Y", "Z">>
LowerAlpha ==
    <<"a", "b", "c", "d", "e", "f", "g", "h", "i", "j", "k", "l", "m",
      "n", "o", "p", "q", "r", "s", "t", "u", "v", "w", "x", "y", "z">>

IsUpper(c) == c \in Range(UpperAlpha)
IsLower(c) == c \in Range(LowerAlpha)
LowerOf(c) == IF IsUpper(c) THEN LowerAlpha[CHOOSE i \in 1..26 : UpperAlpha[i] = c] ELSE c
UpperOf(c) == IF IsLower(c) THEN UpperAlpha[CHOOSE i \in 1..26 : LowerAlpha[i] = c] ELSE c

\* str.lower()
lower(s) == [i \in DOMAIN s |-> LowerOf(s[i])]

\* str.title(): a letter after a non-letter in upper case, every other letter in lower case
title(s) ==
    [i \in DOMAIN s |->
        IF i = 1 \/ ~(IsUpper(s[i - 1]) \/ IsLower(s[i - 1]))
        THEN UpperOf(s[i]) ELSE LowerOf(s[i])]

\* needle in haystack, matched on whole words only
Contains_WholeWords(haystack, needle) ==
    \E i \in 1..(Len(haystack) - Len(needle) + 1) :
        /\ SubSeq(haystack, i, i + Len(needle) - 1) = needle
        /\ i = 1 \/ haystack[i - 1] = " "
        /\ i + Len(needle) - 1 = Len(haystack) \/ haystack[i + Len(needle)] = " "

\* needle in haystack
Contains(haystack, needle) ==
    \E i \in 1..(Len(haystack) - Len(needle) + 1) :
        SubSeq(haystack, i, i + Len(needle) - 1) = needle

\* str.startswith(prefix)
StartsWith(s, prefix) ==
    Len(s) >= Len(prefix) /\ SubSeq(s, 1, Len(prefix)) = prefix

\* s[n:]
From(s, n) == SubSeq(s, n + 1, Len(s))

\* str.replace(old, new) for a one-character old
Replace1(s, old, new) == Concat([i \in DOMAIN s |-> IF s[i] = old THEN new ELSE <<s[i]>>])

\* the characters \s matches, once the no-break space has become a space
Whitespace == {" ", "\t", "\n"}

\* str.strip() of text that may hold any whitespace
RECURSIVE StripWs(_)
StripWs(s) ==
    IF s # <<>> /\ s[1] \in Whitespace \cup {"U+00A0"} THEN StripWs(Tail(s))
    ELSE IF s # <<>> /\ s[Len(s)] \in Whitespace \cup {"U+00A0"}
         THEN StripWs(SubSeq(s, 1, Len(s) - 1))
    ELSE s

\* RE_WS.sub(" ", value): every run of whitespace becomes one space
RECURSIVE CollapseWs(_, _)
CollapseWs(s, inRun) ==
    IF s = <<>> THEN <<>>
    ELSE IF s[1] \in Whitespace
         THEN (IF inRun THEN <<>> ELSE <<" ">>) \o CollapseWs(Tail(s), TRUE)
         ELSE <<s[1]>> \o CollapseWs(Tail(s), FALSE)

\* the replacements table of clean_text, on the characters of the model:
\* U+FFFD is dropped, a curly apostrophe is straightened, a no-break space is a space
Replacements(s) ==
    Concat([i \in DOMAIN s |->
        CASE s[i] = "U+FFFD" -> <<>>
          [] s[i] = "U+2019" -> <<"'">>
          [] s[i] = "U+00A0" -> <<" ">>
          [] OTHER -> <<s[i]>>])

\* clean_text(value): None stays None, any other value becomes cleaned text
clean_text(value) ==
    IF value = Null THEN Null
    ELSE Str(Strip(CollapseWs(Replacements(PyStr(value)), FALSE)))

\* clean(s) of format_plots.py and format_magic.py: no replacements table
clean(s) ==
    IF s = Null THEN Null ELSE Str(Strip(CollapseWs(PyStr(s), FALSE)))

\* iterating a value: a list gives its items, a string its characters, an object
\* its keys; None, a number and a boolean raise TypeError
Iterable(v) == v.t \in {"list", "str", "odict"}
IterItems(v) ==
    CASE v.t = "list" -> v.l
      [] v.t = "str" -> [i \in DOMAIN v.s |-> Str(<<v.s[i]>>)]
      [] v.t = "odict" -> [i \in DOMAIN v.kv |-> Str(v.kv[i][1])]

\* the exception a Python expression raises, in place of its value
Raise(exc) == [t |-> "raise", exc |-> exc]
Raised(v) == v.t = "raise"

RECURSIVE CleanItems(_)
CleanItems(items) ==
    IF items = <<>> THEN <<>>
    ELSE LET t == clean_text(items[1])
         IN (IF Truthy(t) THEN <<t>> ELSE <<>>) \o CleanItems(Tail(items))

\* clean_list(values): the cleaned non-empty items, None when there are none
clean_list(values) ==
    IF values = Null THEN Null
    ELSE IF ~Iterable(values) THEN Raise("TypeError")
    ELSE LET result == CleanItems(IterItems(values))
         IN IF result # <<>> THEN List(result) ELSE Null

\* re.sub(r"[^a-z0-9_]+", "_", s): every run of other characters becomes one "_"
RECURSIVE SubRuns(_, _)
SubRuns(s, inRun) ==
    IF s = <<>> THEN <<>>
    ELSE IF IsLower(s[1]) \/ s[1] \in Range(DigitChars) \/ s[1] = "_"
         THEN <<s[1]>> \o SubRuns(Tail(s), FALSE)
         ELSE (IF inRun THEN <<>> ELSE <<"_">>) \o SubRuns(Tail(s), TRUE)

\* the id of an entity
IdOf(name) == SubRuns(lower(name), FALSE)

-----------------------------------------------------------------------------
(* scripts/format_creatures.py: danger_bucket *)

ExtremeKeywords == <<<<"e", "x", "t", "r", "e", "m", "e">>, <<"m", "y", "t", "h", "i", "c">>, <<"c", "a", "t", "a", "s", "t", "r", "o", "p", "h", "i", "c">>>>
HighKeywords == <<<<"v", "e", "r", "y", " ", "h", "i", "g", "h">>, <<"e", "x", "t", "r", "e", "m", "e", "l", "y", " ", "h", "i", "g", "h">>, <<"d", "e", "a", "d", "l", "y">>, <<"l", "e", "t", "h", "a", "l">>, <<"h", "i", "g", "h">>>>
ModerateKeywords == <<<<"m", "o", "d", "e", "r", "a", "t", "e">>, <<"m", "e", "d", "i", "u", "m">>>>
LowKeywords == <<<<"l", "o", "w">>, <<"m", "i", "n", "o", "r">>>>

\* any(k in t for k in keywords)
AnyIn(keywords, t) == \E i \in DOMAIN keywords : Contains(t, keywords[i])

\* danger_bucket with the High keywords tried before the Extreme ones
danger_bucket_HighFirst(text) ==
    IF ~Truthy(text) THEN <<"U", "n", "k", "n", "o", "w", "n">>
    ELSE LET t == lower(PyStr(text))
         IN IF AnyIn(HighKeywords, t) THEN <<"H", "i", "g", "h">>
            ELSE IF AnyIn(ExtremeKeywords, t) THEN <<"E", "x", "t", "r", "e", "m", "e">>
            ELSE IF AnyIn(ModerateKeywords, t) THEN <<"M", "o", "d", "e", "r", "a", "t", "e">>
            ELSE IF AnyIn(LowKeywords, t) THEN <<"L", "o", "w">>
            ELSE <<"U", "n", "k", "n", "o", "w", "n">>

danger_bucket(text) ==
    IF ~Truthy(text) THEN <<"U", "n", "k", "n", "o", "w", "n">>
    ELSE LET t == lower(PyStr(text))
         IN IF AnyIn(ExtremeKeywords, t) THEN <<"E", "x", "t", "r", "e", "m", "e">>
            ELSE IF AnyIn(HighKeywords, t) THEN <<"H", "i", "g", "h">>
            ELSE IF AnyIn(ModerateKeywords, t) THEN <<"M", "o", "d", "e", "r", "a", "t", "e">>
            ELSE IF AnyIn(LowKeywords, t) THEN <<"L", "o", "w">>
            ELSE <<"U", "n", "k", "n", "o", "w", "n">>

-----------------------------------------------------------------------------
(* scripts/format_characters.py: synonyms *)

\* SYNONYMS of format_characters.py as the module defines it
CharacterSynonyms ==
    ODict(<<
        <<<<"s", "p", "e", "c", "i", "e", "s">>, ODict(<<
            <<<<"h", "i", "g", "h", " ", "f", "a", "e">>, Str(<<"F", "a", "e">>)>>,
            <<<<"f", "a", "e">>, Str(<<"F", "a", "e">>)>>,
            <<<<"f", "a", "e", "r", "i", "e">>, Str(<<"F", "a", "e">>)>>,
            <<<<"d", "r", "y", "a", "d", "s">>, Str(<<"D", "r", "y", "a", "d">>)>>,
            <<<<"d", "r", "y", "a", "d">>, Str(<<"D", "r", "y", "a", "d">>)>>,
            <<<<"d", "r", "a", "g", "o", "n">>, Str(<<"D", "r", "a", "g", "o", "n">>)>>,
            <<<<"d", "r", "a", "g", "o", "n", "s">>, Str(<<"D", "r", "a", "g", "o", "n">>)>>,
            <<<<"d", "r", "a", "g", "o", "n", "k", "i", "n">>, Str(<<"D", "r", "a", "g", "o", "n">>)>>,
            <<<<"h", "u", "m", "a", "n">>, Str(<<"H", "u", "m", "a", "n">>)>>,
            <<<<"m", "o", "r", "t", "a", "l">>, Str(<<"H", "u", "m", "a", "n">>)>>,
            <<<<"m", "o", "r", "t", "a", "l", "s">>, Str(<<"H", "u", "m", "a", "n">>)>>>>)>>,
        <<<<"r", "e", "a", "l", "m">>, ODict(<<
            <<<<"e", "l", "a", "r", "i", "o", "n">>, Str(<<"E", "l", "a", "r", "i", "o", "n">>)>>,
            <<<<"t", "h", "e", " ", "a", "b", "y", "s", "s">>, Str(<<"A", "b", "y", "s", "s">>)>>,
            <<<<"a", "b", "y", "s", "s">>, Str(<<"A", "b", "y", "s", "s">>)>>,
            <<<<"d", "r", "e", "a", "m", "i", "n", "g", " ", "r", "e", "a", "l", "m">>, Str(<<"D", "r", "e", "a", "m", "i", "n", "g", " ", "R", "e", "a", "l", "m">>)>>,
            <<<<"d", "r", "e", "a", "m", "w", "e", "a", "v", "e">>, Str(<<"D", "r", "e", "a", "m", "i", "n", "g", " ", "R", "e", "a", "l", "m">>)>>,
            <<<<"d", "r", "e", "a", "m">>, Str(<<"D", "r", "e", "a", "m", "i", "n", "g", " ", "R", "e", "a", "l", "m">>)>>>>)>>,
        <<<<"c", "o", "u", "r", "t">>, ODict(<<
            <<<<"n", "o", "r", "t", "h", "e", "r", "n", " ", "f", "a", "e", " ", "c", "o", "u", "r", "t", "s">>, Str(<<"N", "o", "r", "t", "h", "e", "r", "n", " ", "C", "o", "u", "r", "t">>)>>,
            <<<<"n", "o", "r", "t", "h", "e", "r", "n", " ", "c", "o", "u", "r", "t">>, Str(<<"N", "o", "r", "t", "h", "e", "r", "n", " ", "C", "o", "u", "r", "t">>)>>,
            <<<<"s", "o", "u", "t", "h", "e", "r", "n", " ", "c", "o", "u", "r", "t">>, Str(<<"S", "o", "u", "t", "h", "e", "r", "n", " ", "C", "o", "u", "r", "t">>)>>,
            <<<<"s", "h", "a", "d", "o", "w", " ", "c", "o", "u", "r", "t">>, Str(<<"S", "h", "a", "d", "o", "w", " ", "C", "o", "u", "r", "t">>)>>>>)>>>>)

\* SYNONYMS of format_creatures.py
CreatureSynonyms ==
    ODict(<<
        <<<<"t", "y", "p", "e">>, ODict(<<
            <<<<"e", "t", "h", "e", "r", "e", "a", "l", " ", "b", "e", "i", "n", "g", "s">>, Str(<<"E", "t", "h", "e", "r", "e", "a", "l">>)>>,
            <<<<"u", "n", "d", "e", "a", "d", " ", "w", "a", "r", "r", "i", "o", "r", "s">>, Str(<<"U", "n", "d", "e", "a", "d">>)>>,
            <<<<"s", "e", "r", "p", "e", "n", "t", "i", "n", "e", " ", "c", "r", "e", "a", "t", "u", "r", "e", "s">>, Str(<<"D", "r", "a", "k", "e">>)>>,
            <<<<"p", "r", "e", "d", "a", "t", "o", "r", "y", " ", "b", "e", "a", "s", "t", "s">>, Str(<<"B", "e", "a", "s", "t">>)>>,
            <<<<"t", "r", "e", "e", "-", "l", "i", "k", "e", " ", "g", "u", "a", "r", "d", "i", "a", "n", "s">>, Str(<<"T", "r", "e", "a", "n", "t">>)>>>>)>>,
        <<<<"l", "o", "c", "a", "t", "i", "o", "n">>, ODict(<<
            <<<<"n", "o", "r", "t", "h", "e", "r", "n", " ", "c", "o", "u", "r", "t", "s">>, Str(<<"N", "o", "r", "t", "h", "e", "r", "n", " ", "C", "o", "u", "r", "t", "s">>)>>,
            <<<<"w", "r", "a", "i", "t", "h", "w", "o", "o", "d">>, Str(<<"W", "r", "a", "i", "t", "h", "w", "o", "o", "d", " ", "F", "o", "r", "e", "s", "t">>)>>,
            <<<<"t", "h", "e", " ", "a", "b", "y", "s", "s">>, Str(<<"A", "b", "y", "s", "s">>)>>,
            <<<<"a", "b", "y", "s", "s">>, Str(<<"A", "b", "y", "s", "s">>)>>>>)>>,
        <<<<"r", "e", "g", "i", "o", "n">>, ODict(<<
            <<<<"n", "o", "r", "t", "h", "e", "r", "n">>, Str(<<"N", "o", "r", "t", "h", "e", "r", "n", " ", "R", "e", "g", "i", "o", "n">>)>>,
            <<<<"w", "r", "a", "i", "t", "h", "w", "o", "o", "d">>, Str(<<"W", "r", "a", "i", "t", "h", "w", "o", "o", "d">>)>>,
            <<<<"a", "b", "y", "s", "s">>, Str(<<"A", "b", "y", "s", "s">>)>>,
            <<<<"e", "l", "a", "r", "i", "o", "n">>, Str(<<"E", "l", "a", "r", "i", "o", "n">>)>>>>)>>,
        <<<<"r", "e", "a", "l", "m">>, ODict(<<
            <<<<"e", "l", "a", "r", "i", "o", "n">>, Str(<<"E", "l", "a", "r", "i", "o", "n">>)>>,
            <<<<"e", "l", "y", "s", "i", "o", "n">>, Str(<<"E", "l", "y", "s", "i", "o", "n">>)>>,
            <<<<"n", "y", "t", "h", "r", "a", "l", "k", "a", "r">>, Str(<<"N", "y", "t", "h", "r", "a", "l", "k", "a", "r">>)>>,
            <<<<"i", "g", "n", "i", "s", "y", "r">>, Str(<<"I", "g", "n", "i", "s", "y", "r">>)>>,
            <<<<"d", "r", "e", "a", "m", "i", "n", "g", " ", "r", "e", "a", "l", "m">>, Str(<<"D", "r", "e", "a", "m", "i", "n", "g", " ", "R", "e", "a", "l", "m">>)>>,
            <<<<"a", "b", "y", "s", "s">>, Str(<<"A", "b", "y", "s", "s">>)>>>>)>>>>)

\* SYNONYMS of format_realms.py
RealmSynonyms ==
    ODict(<<
        <<<<"n", "a", "m", "e">>, ODict(<<
            <<<<"e", "l", "a", "r", "i", "o", "n">>, Str(<<"E", "l", "a", "r", "i", "o", "n">>)>>,
            <<<<"t", "h", "e", " ", "a", "b", "y", "s", "s">>, Str(<<"A", "b", "y", "s", "s">>)>>,
            <<<<"a", "b", "y", "s", "s">>, Str(<<"A", "b", "y", "s", "s">>)>>,
            <<<<"i", "g", "n", "i", "s", "y", "r">>, Str(<<"I", "g", "n", "i", "s", "y", "r">>)>>,
            <<<<"e", "l", "y", "s", "i", "o", "n">>, Str(<<"E", "l", "y", "s", "i", "o", "n">>)>>>>)>>>>)

\* the module globals as the three modules define them
DefaultSynonyms ==
    [characters |-> CharacterSynonyms,
     creatures |-> CreatureSynonyms,
     realms |-> RealmSynonyms]

\* SYNONYMS.get(section, {})
Section(synonyms, section) ==
    IF OHas(synonyms, section) /\ IsODict(OGet(synonyms, section))
    THEN OGet(synonyms, section) ELSE EmptyODict

\* canonicalize_with_synonyms without the lower-casing of the key
canonicalize_with_synonyms_CaseSensitive(value, table, title_case) ==
    LET key == StripWs(value)
    IN IF OHas(table, key) THEN OGet(table, key)
       ELSE IF title_case THEN Str(title(value)) ELSE Str(value)

canonicalize_with_synonyms(value, table, title_case) ==
    LET key == lower(StripWs(value))
    IN IF OHas(table, key) THEN OGet(table, key)
       ELSE IF title_case THEN Str(title(value)) ELSE Str(value)

\* a path that names no file
Missing == [ok |-> FALSE, exists |-> FALSE]

\* merged[sect].update({str(k).lower(): str(v) for k, v in m.items()})
RECURSIVE UpdateLowered(_, _)
UpdateLowered(table, kv) ==
    IF kv = <<>> THEN table
    ELSE UpdateLowered(OSet(table, lower(kv[1][1]), Str(PyStr(kv[1][2]))), Tail(kv))

\* the loop of load_synonyms over the sections of the file
RECURSIVE MergeSections(_, _)
MergeSections(merged, kv) ==
    IF kv = <<>> THEN merged
    ELSE LET section == kv[1][1]
             m == kv[1][2]
             sect == lower(section)
         IN IF ~IsODict(m) THEN MergeSections(merged, Tail(kv))
            ELSE MergeSections(
                    OSet(merged, sect, UpdateLowered(Section(merged, sect), m.kv)),
                    Tail(kv))

\* load_synonyms(path): the file merged onto the SYNONYMS global of
\* format_characters.py, whichever module the function was imported through;
\* a missing file, unreadable JSON or a document that is no object changes nothing
load_synonyms(current, file) ==
    IF file = Missing \/ ~file.ok \/ ~IsODict(file.json) THEN current
    ELSE MergeSections(current, file.json.kv)

\* set_synonyms(synonyms): global SYNONYMS of format_characters.py
set_synonyms(globals, synonyms) == [globals EXCEPT !.characters = synonyms]

-----------------------------------------------------------------------------
(* scripts/format_characters.py: the character normalizer *)

\* the first exception among values computed in this order, else the value given
FirstRaised(values, otherwise) ==
    IF \E i \in DOMAIN values : Raised(values[i])
    THEN values[CHOOSE i \in DOMAIN values :
                    Raised(values[i]) /\ \A j \in 1..(i - 1) : ~Raised(values[j])]
    ELSE otherwise

\* re.sub(r"[^a-z0-9]+", "_", s): every run of other characters becomes one "_"
RECURSIVE SubKeyRuns(_, _)
SubKeyRuns(s, inRun) ==
    IF s = <<>> THEN <<>>
    ELSE IF IsLower(s[1]) \/ s[1] \in Range(DigitChars)
         THEN <<s[1]>> \o SubKeyRuns(Tail(s), FALSE)
         ELSE (IF inRun THEN <<>> ELSE <<"_">>) \o SubKeyRuns(Tail(s), TRUE)

\* str.strip("_")
RECURSIVE StripUnderscores(_)
StripUnderscores(s) ==
    IF s # <<>> /\ s[1] = "_" THEN StripUnderscores(Tail(s))
    ELSE IF s # <<>> /\ s[Len(s)] = "_" THEN StripUnderscores(SubSeq(s, 1, Len(s) - 1))
    ELSE s

canonicalize_key(k) == StripUnderscores(SubKeyRuns(lower(k), FALSE))

as_list(value) ==
    IF value = Null THEN List(<<>>)
    ELSE IF IsList(value) THEN value
    ELSE List(<<value>>)

\* x or []
OrEmptyList(x) == IF Raised(x) THEN x ELSE Or(x, List(<<>>))

\* f"{a}: {b}"
Labelled(a, b) == Str(PyStr(a) \o <<":", " ">> \o PyStr(b))

\* the body of a loop over the items of an object, folded over them
RECURSIVE AbilitiesOfDict(_)
AbilitiesOfDict(kv) ==
    IF kv = <<>> THEN <<>>
    ELSE LET name == kv[1][1]
             body == kv[1][2]
         IN <<IF IsODict(body)
              THEN ODict(<< <<<<"n", "a", "m", "e">>, clean_text(Str(name))>>,
                            <<<<"d", "e", "s", "c", "r", "i", "p", "t", "i", "o", "n">>, clean_text(OGet(body, <<"d", "e", "s", "c", "r", "i", "p", "t", "i", "o", "n">>))>>,
                            <<<<"a", "p", "p", "l", "i", "c", "a", "t", "i", "o", "n">>, clean_text(OGet(body, <<"a", "p", "p", "l", "i", "c", "a", "t", "i", "o", "n">>))>> >>)
              ELSE ODict(<< <<<<"n", "a", "m", "e">>, clean_text(Str(name))>>,
                            <<<<"d", "e", "s", "c", "r", "i", "p", "t", "i", "o", "n">>, clean_text(body)>> >>)>>
            \o AbilitiesOfDict(Tail(kv))

RECURSIVE AbilitiesOfList(_)
AbilitiesOfList(items) ==
    IF items = <<>> THEN <<>>
    ELSE LET item == items[1]
         IN <<IF IsODict(item) /\ OHas(item, <<"n", "a", "m", "e">>)
              THEN ODict(<< <<<<"n", "a", "m", "e">>, clean_text(OGet(item, <<"n", "a", "m", "e">>))>>,
                            <<<<"d", "e", "s", "c", "r", "i", "p", "t", "i", "o", "n">>, clean_text(OGet(item, <<"d", "e", "s", "c", "r", "i", "p", "t", "i", "o", "n">>))>>,
                            <<<<"a", "p", "p", "l", "i", "c", "a", "t", "i", "o", "n">>, clean_text(OGet(item, <<"a", "p", "p", "l", "i", "c", "a", "t", "i", "o", "n">>))>> >>)
              ELSE ODict(<< <<<<"n", "a", "m", "e">>, clean_text(Str(PyStr(item)))>> >>)>>
            \o AbilitiesOfList(Tail(items))

normalize_abilities(raw) ==
    IF IsODict(raw) THEN List(AbilitiesOfDict(raw.kv))
    ELSE IF IsList(raw) THEN List(AbilitiesOfList(raw.l))
    ELSE List(<<>>)

\* raw.items() of a value that is no object
NoItems == Raise("AttributeError")

\* out.setdefault("notes", []).append(text)
AppendNote(out, text) ==
    OSet(out, <<"n", "o", "t", "e", "s">>, List(Append(Or(OGet(out, <<"n", "o", "t", "e", "s">>), List(<<>>)).l, text)))

\* out["notes"] = clean_list(out["notes"]) when there are notes
CleanNotes(out) ==
    IF OHas(out, <<"n", "o", "t", "e", "s">>) THEN OSet(out, <<"n", "o", "t", "e", "s">>, clean_list(OGet(out, <<"n", "o", "t", "e", "s">>)))
    ELSE out

AppearanceKeys ==
    {<<"h", "e", "i", "g", "h", "t">>, <<"b", "u", "i", "l", "d">>, <<"s", "k", "i", "n">>, <<"h", "a", "i", "r">>, <<"e", "y", "e", "s">>, <<"w", "i", "n", "g", "s">>, <<"a", "t", "t", "i", "r", "e">>,
     <<"d", "i", "s", "t", "i", "n", "c", "t", "i", "v", "e", "_", "f", "e", "a", "t", "u", "r", "e", "s">>, <<"m", "a", "r", "k", "s">>}

RECURSIVE AppearanceLoop(_, _)
AppearanceLoop(out, kv) ==
    IF kv = <<>> THEN out
    ELSE LET k == kv[1][1]
             v == kv[1][2]
             kcanon == canonicalize_key(k)
         IN AppearanceLoop(
                IF kcanon \in {canonicalize_key(x) : x \in AppearanceKeys}
                THEN OSet(out, kcanon, clean_text(v))
                ELSE AppendNote(out, Labelled(clean_text(Str(k)), clean_text(v))),
                Tail(kv))

normalize_appearance(raw) ==
    IF raw = Null THEN EmptyODict
    ELSE IF ~IsODict(raw) THEN NoItems
    ELSE CleanNotes(AppearanceLoop(EmptyODict, raw.kv))

\* list + list
Plus(a, b) == List(a.l \o b.l)

\* the loop of normalize_personality: [out, traits_extra]
RECURSIVE PersonalityLoop(_, _, _)
PersonalityLoop(out, traits_extra, kv) ==
    IF kv = <<>> THEN [out |-> out, traits_extra |-> traits_extra]
    ELSE LET k == kv[1][1]
             v == kv[1][2]
             kcanon == canonicalize_key(k)
             cleaned == clean_text(v)
         IN IF kcanon \in {<<"t", "r", "a", "i", "t", "s">>, <<"f", "l", "a", "w", "s">>, <<"v", "i", "r", "t", "u", "e", "s">>}
            THEN PersonalityLoop(OSet(out, kcanon, clean_list(as_list(v))),
                                 traits_extra, Tail(kv))
            ELSE IF kcanon = <<"t", "e", "m", "p", "e", "r", "a", "m", "e", "n", "t">>
            THEN PersonalityLoop(OSet(out, <<"t", "e", "m", "p", "e", "r", "a", "m", "e", "n", "t">>, clean_text(v)),
                                 traits_extra, Tail(kv))
            ELSE IF kcanon \in {<<"s", "t", "r", "e", "n", "g", "t", "h", "s">>, <<"w", "e", "a", "k", "n", "e", "s", "s", "e", "s">>}
            THEN LET mapped == IF kcanon = <<"s", "t", "r", "e", "n", "g", "t", "h", "s">> THEN <<"v", "i", "r", "t", "u", "e", "s">> ELSE <<"f", "l", "a", "w", "s">>
                 IN PersonalityLoop(
                        OSet(out, mapped,
                             Plus(Or(OGet(out, mapped), List(<<>>)),
                                  Or(clean_list(as_list(v)), List(<<>>)))),
                        traits_extra, Tail(kv))
            ELSE IF Truthy(cleaned)
            THEN PersonalityLoop(out,
                    Append(traits_extra,
                           Labelled(Str(Replace1(clean_text(Str(k)).s, "_", <<" ">>)),
                                    cleaned)),
                    Tail(kv))
            ELSE PersonalityLoop(out, traits_extra, Tail(kv))

normalize_personality(raw) ==
    IF raw = Null THEN EmptyODict
    ELSE IF ~IsODict(raw) THEN NoItems
    ELSE LET r == PersonalityLoop(EmptyODict, <<>>, raw.kv)
         IN IF r.traits_extra # <<>>
            THEN OSet(r.out, <<"t", "r", "a", "i", "t", "s">>,
                      Plus(Or(OGet(r.out, <<"t", "r", "a", "i", "t", "s">>), List(<<>>)), List(r.traits_extra)))
            ELSE r.out

LineageFields ==
    {<<"f", "a", "t", "h", "e", "r">>, <<"m", "o", "t", "h", "e", "r">>, <<"s", "i", "b", "l", "i", "n", "g", "s">>, <<"c", "o", "n", "s", "o", "r", "t", "s">>, <<"e", "s", "s", "e", "n", "c", "e">>, <<"t", "y", "p", "e">>, <<"o", "r", "i", "g", "i", "n">>,
     <<"s", "t", "a", "t", "u", "s">>, <<"r", "o", "l", "e">>}

RECURSIVE LineageLoop(_, _)
LineageLoop(out, kv) ==
    IF kv = <<>> THEN out
    ELSE LET k == kv[1][1]
             v == kv[1][2]
             kcanon == canonicalize_key(k)
         IN LineageLoop(
                IF kcanon \in LineageFields
                THEN OSet(out, kcanon, IF IsList(v) THEN clean_list(v) ELSE clean_text(v))
                ELSE IF kcanon = <<"p", "r", "i", "m", "o", "r", "d", "i", "a", "l">> /\ IsODict(v)
                THEN OSet(out, <<"p", "r", "i", "m", "o", "r", "d", "i", "a", "l">>,
                          ODict([i \in DOMAIN v.kv |->
                                    <<v.kv[i][1], clean_text(v.kv[i][2])>>]))
                ELSE AppendNote(out, Labelled(clean_text(Str(k)), clean_text(v))),
                Tail(kv))

normalize_lineage(raw) ==
    IF raw = Null THEN EmptyODict
    ELSE IF ~IsODict(raw) THEN NoItems
    ELSE CleanNotes(LineageLoop(EmptyODict, raw.kv))

ProphecyKeys == <<<<"n", "a", "m", "e">>, <<"d", "e", "s", "c", "r", "i", "p", "t", "i", "o", "n">>, <<"l", "o", "r", "e", "_", "f", "r", "a", "g", "m", "e", "n", "t">>>>

\* k in raw: a key of an object, an item of a list, a piece of a string
In(k, raw) ==
    CASE raw.t = "odict" -> OHas(raw, k)
      [] raw.t = "list" -> Str(k) \in Range(raw.l)
      [] raw.t = "str" -> Contains(raw.s, k)
      [] OTHER -> FALSE

RECURSIVE ProphecyLoop(_, _, _)
ProphecyLoop(out, raw, keys) ==
    IF keys = <<>> THEN out
    ELSE ProphecyLoop(
            IF OHas(raw, keys[1]) THEN OSet(out, keys[1], clean_text(OGet(raw, keys[1])))
            ELSE out,
            raw, Tail(keys))

\* a number or a boolean raises at the first "k in raw", a list or a string at
\* the first raw.get
normalize_prophecy(raw) ==
    IF raw = Null THEN EmptyODict
    ELSE IF raw.t \in {"num", "bool"} THEN Raise("TypeError")
    ELSE IF ~IsODict(raw)
    THEN IF \E k \in Range(ProphecyKeys) \cup {<<"p", "o", "w", "e", "r", "s", "_", "f", "o", "r", "e", "t", "o", "l", "d">>} : In(k, raw)
         THEN Raise("AttributeError") ELSE EmptyODict
    ELSE LET out == ProphecyLoop(EmptyODict, raw, ProphecyKeys)
         IN IF OHas(raw, <<"p", "o", "w", "e", "r", "s", "_", "f", "o", "r", "e", "t", "o", "l", "d">>)
            THEN OSet(out, <<"p", "o", "w", "e", "r", "s", "_", "f", "o", "r", "e", "t", "o", "l", "d">>,
                      clean_list(as_list(OGet(raw, <<"p", "o", "w", "e", "r", "s", "_", "f", "o", "r", "e", "t", "o", "l", "d">>))))
            ELSE out

\* x if x is text that is not empty, canonicalized through the section's table
Canonical(x, synonyms, section, title_case) ==
    IF Truthy(x)
    THEN canonicalize_with_synonyms(x.s, Section(synonyms, section), title_case)
    ELSE x

\* titles of normalize_character
TitlesOf(entry) ==
    LET title_val == Or(OGet(entry, <<"t", "i", "t", "l", "e">>), OGet(entry, <<"t", "i", "t", "l", "e", "s">>))
    IN IF IsList(title_val) THEN Or(clean_list(title_val), List(<<>>))
       ELSE IF Truthy(title_val) THEN List(<<clean_text(title_val)>>)
       ELSE List(<<>>)

\* rels[clean_text(k)] = clean_text(v) for the items of the relationships object
RECURSIVE RelationshipsLoop(_, _)
RelationshipsLoop(rels, kv) ==
    IF kv = <<>> THEN rels
    ELSE RelationshipsLoop(
            OSet(rels, clean_text(Str(kv[1][1])).s, clean_text(kv[1][2])), Tail(kv))

\* clean_text(k[12:]).replace("_", " ")
RelationshipLabel(k) ==
    Replace1(clean_text(Str(From(k, 12))).s, "_", <<" ">>)

\* the scan of the top-level keys starting with relationship_
RECURSIVE RelationshipKeysLoop(_, _)
RelationshipKeysLoop(rels, kv) ==
    IF kv = <<>> THEN rels
    ELSE RelationshipKeysLoop(
            IF StartsWith(lower(kv[1][1]), <<"r", "e", "l", "a", "t", "i", "o", "n", "s", "h", "i", "p", "_">>)
            THEN OSet(rels, RelationshipLabel(kv[1][1]), clean_text(kv[1][2]))
            ELSE rels,
            Tail(kv))

RelationshipsOf(entry) ==
    LET relationships == Or(OGet(entry, <<"r", "e", "l", "a", "t", "i", "o", "n", "s", "h", "i", "p", "s">>), EmptyODict)
        rels == IF IsODict(relationships)
                THEN RelationshipsLoop(EmptyODict, relationships.kv)
                ELSE EmptyODict
    IN RelationshipKeysLoop(rels, entry.kv)

CharacterRecognized ==
    {<<"n", "a", "m", "e">>, <<"t", "i", "t", "l", "e">>, <<"t", "i", "t", "l", "e", "s">>, <<"s", "p", "e", "c", "i", "e", "s">>, <<"g", "e", "n", "d", "e", "r">>, <<"a", "g", "e">>, <<"r", "e", "a", "l", "m">>, <<"c", "o", "u", "r", "t">>,
     <<"a", "f", "f", "i", "l", "i", "a", "t", "i", "o", "n", "s">>, <<"d", "o", "m", "a", "i", "n">>, <<"d", "o", "m", "a", "i", "n", "s">>, <<"r", "o", "l", "e", "_", "i", "n", "_", "c", "o", "s", "m", "i", "c", "_", "o", "r", "d", "e", "r">>, <<"r", "o", "l", "e">>,
     <<"a", "p", "p", "e", "a", "r", "a", "n", "c", "e">>, <<"p", "e", "r", "s", "o", "n", "a", "l", "i", "t", "y">>, <<"l", "i", "n", "e", "a", "g", "e">>, <<"p", "r", "o", "p", "h", "e", "c", "y">>, <<"a", "b", "i", "l", "i", "t", "i", "e", "s">>,
     <<"r", "e", "l", "a", "t", "i", "o", "n", "s", "h", "i", "p", "s">>}

\* notes: the unrecognized top-level fields with a scalar value that is not empty
RECURSIVE CharacterNotes(_)
CharacterNotes(kv) ==
    IF kv = <<>> THEN <<>>
    ELSE LET k == kv[1][1]
             v == kv[1][2]
             cleaned == IF IsODict(v) \/ IsList(v) THEN Null ELSE clean_text(v)
         IN (IF k \notin CharacterRecognized /\ Truthy(cleaned)
             THEN <<Labelled(Str(k), cleaned)>> ELSE <<>>)
            \o CharacterNotes(Tail(kv))

\* the source block of an entity
SourceOf(context, keys) ==
    ODict([i \in DOMAIN keys |-> <<keys[i], OGet(context, keys[i])>>])

normalize_character(entry, context, synonyms) ==
    LET name == Or(clean_text(OGet(entry, <<"n", "a", "m", "e">>)), Str(<<"U", "n", "k", "n", "o", "w", "n">>))
        titles == TitlesOf(entry)
        domains == OrEmptyList(clean_list(Or(OGet(entry, <<"d", "o", "m", "a", "i", "n">>),
                                             OGet(entry, <<"d", "o", "m", "a", "i", "n", "s">>))))
        role == clean_text(Or(OGet(entry, <<"r", "o", "l", "e", "_", "i", "n", "_", "c", "o", "s", "m", "i", "c", "_", "o", "r", "d", "e", "r">>), OGet(entry, <<"r", "o", "l", "e">>)))
        species == Canonical(clean_text(OGet(entry, <<"s", "p", "e", "c", "i", "e", "s">>)), synonyms,
                             <<"s", "p", "e", "c", "i", "e", "s">>, FALSE)
        realm == Canonical(clean_text(Or(OGet(entry, <<"r", "e", "a", "l", "m">>), OGet(context, <<"r", "e", "a", "l", "m">>))),
                           synonyms, <<"r", "e", "a", "l", "m">>, TRUE)
        court == Canonical(clean_text(Or(OGet(entry, <<"c", "o", "u", "r", "t">>), OGet(context, <<"c", "o", "u", "r", "t">>))),
                           synonyms, <<"c", "o", "u", "r", "t">>, TRUE)
        affiliations == clean_list(OGet(entry, <<"a", "f", "f", "i", "l", "i", "a", "t", "i", "o", "n", "s">>))
        appearance == normalize_appearance(OGet(entry, <<"a", "p", "p", "e", "a", "r", "a", "n", "c", "e">>))
        personality == normalize_personality(OGet(entry, <<"p", "e", "r", "s", "o", "n", "a", "l", "i", "t", "y">>))
        lineage == normalize_lineage(OGet(entry, <<"l", "i", "n", "e", "a", "g", "e">>))
        prophecy == normalize_prophecy(OGet(entry, <<"p", "r", "o", "p", "h", "e", "c", "y">>))
        abilities == normalize_abilities(Or(OGet(entry, <<"a", "b", "i", "l", "i", "t", "i", "e", "s">>), EmptyODict))
        rels == RelationshipsOf(entry)
    IN FirstRaised(
        <<domains, affiliations, appearance, personality, lineage, prophecy>>,
        ODict(<< <<<<"i", "d">>, Str(IdOf(name.s))>>,
                 <<<<"n", "a", "m", "e">>, name>>,
                 <<<<"t", "i", "t", "l", "e", "s">>, titles>>,
                 <<<<"s", "p", "e", "c", "i", "e", "s">>, species>>,
                 <<<<"g", "e", "n", "d", "e", "r">>, clean_text(OGet(entry, <<"g", "e", "n", "d", "e", "r">>))>>,
                 <<<<"a", "g", "e">>, clean_text(OGet(entry, <<"a", "g", "e">>))>>,
                 <<<<"r", "e", "a", "l", "m">>, realm>>,
                 <<<<"c", "o", "u", "r", "t">>, court>>,
                 <<<<"a", "f", "f", "i", "l", "i", "a", "t", "i", "o", "n", "s">>, affiliations>>,
                 <<<<"d", "o", "m", "a", "i", "n", "s">>, domains>>,
                 <<<<"r", "o", "l", "e">>, role>>,
                 <<<<"a", "p", "p", "e", "a", "r", "a", "n", "c", "e">>, appearance>>,
                 <<<<"p", "e", "r", "s", "o", "n", "a", "l", "i", "t", "y">>, personality>>,
                 <<<<"l", "i", "n", "e", "a", "g", "e">>, lineage>>,
                 <<<<"p", "r", "o", "p", "h", "e", "c", "y">>, prophecy>>,
                 <<<<"a", "b", "i", "l", "i", "t", "i", "e", "s">>, abilities>>,
                 <<<<"r", "e", "l", "a", "t", "i", "o", "n", "s", "h", "i", "p", "s">>, rels>>,
                 <<<<"n", "o", "t", "e", "s">>, clean_list(List(CharacterNotes(entry.kv)))>>,
                 <<<<"s", "o", "u", "r", "c", "e">>, SourceOf(context, <<<<"f", "i", "l", "e">>, <<"c", "a", "t", "e", "g", "o", "r", "y">>, <<"g", "r", "o", "u", "p">>>>)>> >>))

\* the context of an entry: file, category, group
Context(path, category, group) ==
    ODict(<< <<<<"f", "i", "l", "e">>, Str(path)>>, <<<<"c", "a", "t", "e", "g", "o", "r", "y">>, Str(category)>>,
             <<<<"g", "r", "o", "u", "p">>, group>> >>)

\* the entities of a loop that normalizes the objects among its items, in
\* order, or the first exception, which ends the loop and leaves the function
NormalizeEach(items, normalize(_)) ==
    LET objects == SelectSeq(items, LAMBDA x : IsODict(x.item))
        entries == [i \in DOMAIN objects |-> normalize(objects[i])]
    IN FirstRaised(entries, List(entries))

\* the items of a list, with the group they are normalized under
Grouped(items, group) == [i \in DOMAIN items |-> [item |-> items[i], group |-> group]]

\* the items of the groups of a characters block: group -> list of entries
CharacterGroups(block) ==
    Concat([i \in DOMAIN block.kv |->
        IF IsList(block.kv[i][2]) THEN Grouped(block.kv[i][2].l, Str(block.kv[i][1]))
        ELSE <<>>])

\* normalize_file of format_characters.py on the parsed document: the list of
\* entities, or the exception it raises
normalize_character_file(data, path, synonyms) ==
    LET one(x) ==
            normalize_character(x.item, Context(path, <<"c", "h", "a", "r", "a", "c", "t", "e", "r", "s">>, x.group), synonyms)
    IN IF IsODict(data) /\ OHas(data, <<"c", "h", "a", "r", "a", "c", "t", "e", "r", "s">>)
       THEN LET characters_block == OGet(data, <<"c", "h", "a", "r", "a", "c", "t", "e", "r", "s">>)
            IN IF IsODict(characters_block)
               THEN NormalizeEach(CharacterGroups(characters_block), one)
               ELSE IF IsList(characters_block)
               THEN NormalizeEach(Grouped(characters_block.l, Null), one)
               ELSE List(<<>>)
       ELSE IF IsList(data) THEN NormalizeEach(Grouped(data.l, Null), one)
       ELSE IF IsODict(data) /\ Truthy(OGet(data, <<"n", "a", "m", "e">>))
       THEN NormalizeEach(Grouped(<<data>>, Null), one)
       ELSE List(<<>>)

-----------------------------------------------------------------------------
(* scripts/format_creatures.py: the creature normalizer *)

\* the value of the last item of the table whose key occurs in the text
FirstNeedle_LastMatch(table, text) ==
    IF \E i \in DOMAIN table.kv : Contains(text, table.kv[i][1])
    THEN table.kv[CHOOSE i \in DOMAIN table.kv :
                    /\ Contains(text, table.kv[i][1])
                    /\ \A j \in (i + 1)..Len(table.kv) : ~Contains(text, table.kv[j][1])][2]
    ELSE Null

\* the value of the first item of the table whose key occurs in the text
FirstNeedle(table, text) ==
    IF \E i \in DOMAIN table.kv : Contains(text, table.kv[i][1])
    THEN table.kv[CHOOSE i \in DOMAIN table.kv :
                    /\ Contains(text, table.kv[i][1])
                    /\ \A j \in 1..(i - 1) : ~Contains(text, table.kv[j][1])][2]
    ELSE Null

CreatureRecognized ==
    {<<"t", "y", "p", "e">>, <<"k", "i", "n", "d">>, <<"s", "p", "e", "c", "i", "e", "s">>, <<"l", "o", "c", "a", "t", "i", "o", "n">>, <<"h", "a", "b", "i", "t", "a", "t">>, <<"d", "e", "s", "c", "r", "i", "p", "t", "i", "o", "n">>,
     <<"a", "b", "i", "l", "i", "t", "i", "e", "s">>, <<"p", "o", "w", "e", "r", "s">>, <<"d", "a", "n", "g", "e", "r", "_", "l", "e", "v", "e", "l">>, <<"t", "h", "r", "e", "a", "t">>, <<"d", "a", "n", "g", "e", "r">>}

\* attributes: the unrecognized fields, objects and lists as they are, scalars cleaned
RECURSIVE CreatureAttributes(_, _)
CreatureAttributes(attributes, kv) ==
    IF kv = <<>> THEN attributes
    ELSE LET k == kv[1][1]
             v == kv[1][2]
         IN CreatureAttributes(
                IF k \in CreatureRecognized THEN attributes
                ELSE IF IsODict(v) \/ IsList(v) THEN OSet(attributes, k, v)
                ELSE IF Truthy(clean_text(v)) THEN OSet(attributes, k, clean_text(v))
                ELSE attributes,
                Tail(kv))

\* normalize_creature(name, raw, context), reading SYNONYMS of format_creatures.py
normalize_creature(name, raw, context, synonyms) ==
    LET display == Or(clean_text(name), Str(<<"U", "n", "k", "n", "o", "w", "n">>))
        kind == Canonical(
                    clean_text(Or(Or(OGet(raw, <<"t", "y", "p", "e">>), OGet(raw, <<"k", "i", "n", "d">>)),
                                  OGet(raw, <<"s", "p", "e", "c", "i", "e", "s">>))),
                    synonyms, <<"t", "y", "p", "e">>, FALSE)
        location == Canonical(
                        clean_text(Or(Or(OGet(raw, <<"l", "o", "c", "a", "t", "i", "o", "n">>), OGet(raw, <<"h", "a", "b", "i", "t", "a", "t">>)),
                                      OGet(context, <<"l", "o", "c", "a", "t", "i", "o", "n">>))),
                        synonyms, <<"l", "o", "c", "a", "t", "i", "o", "n">>, TRUE)
        grp == OGet(context, <<"g", "r", "o", "u", "p">>)
        byLocation == IF Truthy(location)
                      THEN FirstNeedle(Section(synonyms, <<"r", "e", "g", "i", "o", "n">>), lower(PyStr(location)))
                      ELSE Null
        region == IF Truthy(byLocation) THEN byLocation
                  ELSE IF IsStr(grp) /\ StripWs(grp.s) # <<>> THEN Str(StripWs(grp.s))
                  ELSE byLocation
        realm_in == clean_text(OGet(raw, <<"r", "e", "a", "l", "m">>))
        realm1 == IF Truthy(realm_in)
                  THEN canonicalize_with_synonyms(realm_in.s, Section(synonyms, <<"r", "e", "a", "l", "m">>),
                                                  TRUE)
                  ELSE Null
        realm2 == IF ~Truthy(realm1) /\ Truthy(location)
                  THEN LET found == FirstNeedle(Section(synonyms, <<"r", "e", "a", "l", "m">>),
                                                lower(PyStr(location)))
                       IN IF found # Null THEN found ELSE realm1
                  ELSE realm1
        realm == IF ~Truthy(realm2) /\ Truthy(region)
                 THEN LET found == FirstNeedle(Section(synonyms, <<"r", "e", "a", "l", "m">>),
                                               lower(PyStr(region)))
                      IN IF found # Null THEN found ELSE realm2
                 ELSE realm2
        abilities_raw == Or(OGet(raw, <<"a", "b", "i", "l", "i", "t", "i", "e", "s">>), OGet(raw, <<"p", "o", "w", "e", "r", "s">>))
        abilities == IF IsList(abilities_raw) THEN Or(clean_list(abilities_raw), List(<<>>))
                     ELSE IF Truthy(abilities_raw) THEN List(<<clean_text(abilities_raw)>>)
                     ELSE List(<<>>)
        danger == clean_text(Or(Or(OGet(raw, <<"d", "a", "n", "g", "e", "r", "_", "l", "e", "v", "e", "l">>), OGet(raw, <<"t", "h", "r", "e", "a", "t">>)),
                                OGet(raw, <<"d", "a", "n", "g", "e", "r">>)))
        attributes == CreatureAttributes(EmptyODict, raw.kv)
    IN ODict(<< <<<<"i", "d">>, Str(IdOf(display.s))>>,
                <<<<"n", "a", "m", "e">>, display>>,
                <<<<"k", "i", "n", "d">>, kind>>,
                <<<<"l", "o", "c", "a", "t", "i", "o", "n">>, location>>,
                <<<<"r", "e", "g", "i", "o", "n">>, region>>,
                <<<<"r", "e", "a", "l", "m">>, realm>>,
                <<<<"d", "e", "s", "c", "r", "i", "p", "t", "i", "o", "n">>, clean_text(OGet(raw, <<"d", "e", "s", "c", "r", "i", "p", "t", "i", "o", "n">>))>>,
                <<<<"a", "b", "i", "l", "i", "t", "i", "e", "s">>, abilities>>,
                <<<<"d", "a", "n", "g", "e", "r", "_", "l", "e", "v", "e", "l">>, danger>>,
                <<<<"a", "t", "t", "r", "i", "b", "u", "t", "e", "s">>, Or(attributes, Null)>>,
                <<<<"s", "o", "u", "r", "c", "e">>, SourceOf(context, <<<<"f", "i", "l", "e">>, <<"c", "a", "t", "e", "g", "o", "r", "y">>, <<"g", "r", "o", "u", "p">>>>)>> >>)

\* the named bodies of a block, with the group they are normalized under
Named(block, group) ==
    [i \in DOMAIN block.kv |->
        [item |-> block.kv[i][2], name |-> Str(block.kv[i][1]), group |-> group]]

\* the bodies of the groups of a creatures block: group -> name -> body
CreatureGroups(block) ==
    Concat([i \in DOMAIN block.kv |->
        IF IsODict(block.kv[i][2]) THEN Named(block.kv[i][2], Str(block.kv[i][1]))
        ELSE <<>>])

\* normalize_file of format_creatures.py on the parsed document
normalize_creatures_file(data, path, synonyms) ==
    LET one(x) ==
            normalize_creature(x.name, x.item, Context(path, <<"c", "r", "e", "a", "t", "u", "r", "e", "s">>, x.group),
                               synonyms)
    IN IF IsODict(data) /\ OHas(data, <<"c", "r", "e", "a", "t", "u", "r", "e", "s">>) /\ IsODict(OGet(data, <<"c", "r", "e", "a", "t", "u", "r", "e", "s">>))
       THEN NormalizeEach(CreatureGroups(OGet(data, <<"c", "r", "e", "a", "t", "u", "r", "e", "s">>)), one)
       ELSE IF IsODict(data) THEN NormalizeEach(Named(data, Null), one)
       ELSE IF IsList(data)
       THEN NormalizeEach(
                [i \in DOMAIN data.l |->
                    [item |-> data.l[i], group |-> Null,
                     name |-> IF IsODict(data.l[i])
                              THEN Or(OGet(data.l[i], <<"n", "a", "m", "e">>), Str(<<"C", "r", "e", "a", "t", "u", "r", "e">>))
                              ELSE Null]],
                one)
       ELSE List(<<>>)

-----------------------------------------------------------------------------
(* scripts/format_realms.py: the realm normalizer *)

RealmRecognized ==
    {<<"n", "a", "m", "e">>, <<"d", "e", "s", "c", "r", "i", "p", "t", "i", "o", "n">>, <<"d", "o", "m", "a", "i", "n", "s">>, <<"r", "u", "l", "e", "r">>, <<"s", "o", "v", "e", "r", "e", "i", "g", "n">>, <<"g", "o", "d", "_", "k", "i", "n", "g">>,
     <<"c", "a", "p", "i", "t", "a", "l">>, <<"f", "a", "c", "t", "i", "o", "n", "s">>, <<"c", "o", "u", "r", "t", "s">>, <<"n", "o", "t", "a", "b", "l", "e", "_", "l", "o", "c", "a", "t", "i", "o", "n", "s">>, <<"l", "a", "n", "d", "m", "a", "r", "k", "s">>}

\* the unrecognized fields: [notes, extra]
RECURSIVE RealmOverflow(_, _, _)
RealmOverflow(notes, extra, kv) ==
    IF kv = <<>> THEN [notes |-> notes, extra |-> extra]
    ELSE LET k == kv[1][1]
             v == kv[1][2]
         IN IF k \in RealmRecognized THEN RealmOverflow(notes, extra, Tail(kv))
            ELSE IF IsODict(v) \/ IsList(v)
            THEN RealmOverflow(notes, OSet(extra, k, v), Tail(kv))
            ELSE IF Truthy(clean_text(v))
            THEN RealmOverflow(Append(notes, Labelled(Str(k), clean_text(v))), extra,
                               Tail(kv))
            ELSE RealmOverflow(notes, extra, Tail(kv))

\* normalize_realm(entry, context), reading SYNONYMS of format_realms.py
normalize_realm(entry, context, synonyms) ==
    LET name == Or(clean_text(OGet(entry, <<"n", "a", "m", "e">>)), Str(<<"U", "n", "k", "n", "o", "w", "n">>))
        canon_name == canonicalize_with_synonyms(name.s, Section(synonyms, <<"n", "a", "m", "e">>), TRUE)
        domains == OrEmptyList(clean_list(OGet(entry, <<"d", "o", "m", "a", "i", "n", "s">>)))
        ruler == clean_text(Or(Or(OGet(entry, <<"r", "u", "l", "e", "r">>), OGet(entry, <<"s", "o", "v", "e", "r", "e", "i", "g", "n">>)),
                               OGet(entry, <<"g", "o", "d", "_", "k", "i", "n", "g">>)))
        factions == OrEmptyList(clean_list(Or(OGet(entry, <<"f", "a", "c", "t", "i", "o", "n", "s">>),
                                              OGet(entry, <<"c", "o", "u", "r", "t", "s">>))))
        locations == OrEmptyList(clean_list(Or(OGet(entry, <<"n", "o", "t", "a", "b", "l", "e", "_", "l", "o", "c", "a", "t", "i", "o", "n", "s">>),
                                               OGet(entry, <<"l", "a", "n", "d", "m", "a", "r", "k", "s">>))))
        over == RealmOverflow(<<>>, EmptyODict, entry.kv)
    IN FirstRaised(
        <<domains, factions, locations>>,
        ODict(<< <<<<"i", "d">>, Str(IdOf(PyStr(canon_name)))>>,
                 <<<<"n", "a", "m", "e">>, canon_name>>,
                 <<<<"d", "e", "s", "c", "r", "i", "p", "t", "i", "o", "n">>, clean_text(OGet(entry, <<"d", "e", "s", "c", "r", "i", "p", "t", "i", "o", "n">>))>>,
                 <<<<"d", "o", "m", "a", "i", "n", "s">>, domains>>,
                 <<<<"r", "u", "l", "e", "r">>, ruler>>,
                 <<<<"c", "a", "p", "i", "t", "a", "l">>, clean_text(OGet(entry, <<"c", "a", "p", "i", "t", "a", "l">>))>>,
                 <<<<"f", "a", "c", "t", "i", "o", "n", "s">>, Or(factions, Null)>>,
                 <<<<"n", "o", "t", "a", "b", "l", "e", "_", "l", "o", "c", "a", "t", "i", "o", "n", "s">>, Or(locations, Null)>>,
                 <<<<"n", "o", "t", "e", "s">>, Or(List(over.notes), Null)>>,
                 <<<<"a", "t", "t", "r", "i", "b", "u", "t", "e", "s">>, Or(over.extra, Null)>>,
                 <<<<"s", "o", "u", "r", "c", "e">>, SourceOf(context, <<<<"f", "i", "l", "e">>, <<"c", "a", "t", "e", "g", "o", "r", "y">>>>)>> >>))

\* normalize_file of format_realms.py on the parsed document
normalize_realms_file(data, path, synonyms) ==
    LET one(x) == normalize_realm(x.item, Context(path, <<"r", "e", "a", "l", "m", "s">>, Null), synonyms)
    IN IF IsODict(data)
       THEN IF OHas(data, <<"r", "e", "a", "l", "m", "s">>) /\ IsList(OGet(data, <<"r", "e", "a", "l", "m", "s">>))
            THEN NormalizeEach(Grouped(OGet(data, <<"r", "e", "a", "l", "m", "s">>).l, Null), one)
            ELSE IF OHas(data, <<"R", "e", "a", "l", "m", "s">>) /\ IsList(OGet(data, <<"R", "e", "a", "l", "m", "s">>))
            THEN NormalizeEach(Grouped(OGet(data, <<"R", "e", "a", "l", "m", "s">>).l, Null), one)
            ELSE IF Truthy(OGet(data, <<"n", "a", "m", "e">>))
            THEN NormalizeEach(Grouped(<<data>>, Null), one)
            ELSE List(<<>>)
       ELSE IF IsList(data) THEN NormalizeEach(Grouped(data.l, Null), one)
       ELSE List(<<>>)

-----------------------------------------------------------------------------
(* scripts/format_plots.py and scripts/format_magic.py *)

SummaryKeys == <<<<"s", "u", "m", "m", "a", "r", "y">>, <<"d", "e", "s", "c", "r", "i", "p", "t", "i", "o", "n">>, <<"o", "v", "e", "r", "v", "i", "e", "w">>>>

\* the loop of extract_summary over summary, description, overview
RECURSIVE SummaryLoop(_, _)
SummaryLoop(block, keys) ==
    IF keys = <<>> THEN Null
    ELSE LET v == OGet(block, keys[1])
         IN IF IsODict(v) /\ Truthy(OGet(v, <<"d", "e", "s", "c", "r", "i", "p", "t", "i", "o", "n">>))
            THEN clean(OGet(v, <<"d", "e", "s", "c", "r", "i", "p", "t", "i", "o", "n">>))
            ELSE IF ~IsODict(v) /\ IsStr(v) THEN clean(v)
            ELSE SummaryLoop(block, Tail(keys))

extract_summary(block) == IF IsODict(block) THEN SummaryLoop(block, SummaryKeys) ELSE Null

\* the entity of one item of the plots block
PlotEntity(name, body, path) ==
    LET nm == Or(clean(IF IsODict(body) THEN OGet(body, <<"p", "l", "o", "t", "_", "n", "a", "m", "e">>) ELSE Str(name)),
                 clean(Str(name)))
    IN ODict(<< <<<<"i", "d">>, Str(IdOf(Or(nm, Str(<<"p", "l", "o", "t">>)).s))>>,
                <<<<"n", "a", "m", "e">>, nm>>,
                <<<<"a", "r", "c">>, Null>>,
                <<<<"s", "t", "a", "t", "u", "s">>, Null>>,
                <<<<"s", "u", "m", "m", "a", "r", "y">>, extract_summary(body)>>,
                <<<<"s", "o", "u", "r", "c", "e">>, ODict(<< <<<<"f", "i", "l", "e">>, Str(path)>>,
                                      <<<<"c", "a", "t", "e", "g", "o", "r", "y">>, Str(<<"p", "l", "o", "t", "s">>)>> >>)>> >>)

\* normalize_file of format_plots.py on the parsed document
normalize_plots_file(data, path) ==
    IF IsODict(data) /\ OHas(data, <<"p", "l", "o", "t", "s">>) /\ IsODict(OGet(data, <<"p", "l", "o", "t", "s">>))
    THEN LET plots == OGet(data, <<"p", "l", "o", "t", "s">>)
         IN List([i \in DOMAIN plots.kv |->
                    PlotEntity(plots.kv[i][1], plots.kv[i][2], path)])
    ELSE List(<<>>)

MagicSource(path) ==
    ODict(<< <<<<"f", "i", "l", "e">>, Str(path)>>, <<<<"c", "a", "t", "e", "g", "o", "r", "y">>, Str(<<"m", "a", "g", "i", "c">>)>> >>)

\* the entities of abilities_list: the items with a name
RECURSIVE MagicAbilities(_, _)
MagicAbilities(items, path) ==
    IF items = <<>> THEN <<>>
    ELSE LET item == items[1]
             name == clean(IF IsODict(item) THEN OGet(item, <<"n", "a", "m", "e">>) ELSE item)
         IN (IF ~Truthy(name) THEN <<>>
             ELSE <<ODict(<< <<<<"i", "d">>, Str(IdOf(name.s))>>,
                             <<<<"n", "a", "m", "e">>, name>>,
                             <<<<"t", "y", "p", "e">>, Null>>,
                             <<<<"s", "c", "h", "o", "o", "l">>, Null>>,
                             <<<<"d", "e", "s", "c", "r", "i", "p", "t", "i", "o", "n">>,
                               IF IsODict(item) THEN clean(OGet(item, <<"d", "e", "s", "c", "r", "i", "p", "t", "i", "o", "n">>))
                               ELSE Null>>,
                             <<<<"d", "o", "m", "a", "i", "n", "s">>, List(<<>>)>>,
                             <<<<"s", "o", "u", "r", "c", "e">>, MagicSource(path)>> >>)>>)
            \o MagicAbilities(Tail(items), path)

\* the fallback: the objects of a bare list that have a name
RECURSIVE MagicFallback(_, _)
MagicFallback(items, path) ==
    IF items = <<>> THEN <<>>
    ELSE LET x == items[1]
             name == clean(OGet(x, <<"n", "a", "m", "e">>))
         IN (IF IsODict(x) /\ Truthy(OGet(x, <<"n", "a", "m", "e">>))
             THEN <<ODict(<< <<<<"i", "d">>, Str(IdOf(name.s))>>,
                             <<<<"n", "a", "m", "e">>, name>>,
                             <<<<"t", "y", "p", "e">>, clean(OGet(x, <<"t", "y", "p", "e">>))>>,
                             <<<<"s", "c", "h", "o", "o", "l">>, clean(OGet(x, <<"s", "c", "h", "o", "o", "l">>))>>,
                             <<<<"d", "e", "s", "c", "r", "i", "p", "t", "i", "o", "n">>, clean(OGet(x, <<"d", "e", "s", "c", "r", "i", "p", "t", "i", "o", "n">>))>>,
                             <<<<"d", "o", "m", "a", "i", "n", "s">>, Or(OGet(x, <<"d", "o", "m", "a", "i", "n", "s">>), List(<<>>))>>,
                             <<<<"s", "o", "u", "r", "c", "e">>, MagicSource(path)>> >>)>>
             ELSE <<>>)
            \o MagicFallback(Tail(items), path)

\* normalize_file of format_magic.py on the parsed document
normalize_magic_file(data, path) ==
    LET root == IF IsODict(data) THEN OGet(data, <<"m", "a", "g", "i", "c", "_", "L", "e", "v", "e", "l", "s", "_", "o", "f", "_", "m", "a", "s", "t", "e", "r", "y", "_", "a", "n", "d", "_", "a", "b", "i", "l", "i", "t", "i", "e", "s">>)
                ELSE Null
        lst == IF IsODict(root) THEN OGet(root, <<"a", "b", "i", "l", "i", "t", "i", "e", "s", "_", "l", "i", "s", "t">>) ELSE Null
        entries == IF IsList(lst) THEN MagicAbilities(lst.l, path) ELSE <<>>
    IN IF entries # <<>> THEN List(entries)
       ELSE IF IsList(data) THEN List(MagicFallback(data.l, path))
       ELSE List(<<>>)

-----------------------------------------------------------------------------
(* app.py: the normalization routes *)

\* build_index of the three formatter modules
build_character_index(entries) ==
    List([i \in DOMAIN entries |->
        LET e == entries[i]
        IN ODict(<< <<<<"i", "d">>, OGet(e, <<"i", "d">>)>>,
                    <<<<"n", "a", "m", "e">>, OGet(e, <<"n", "a", "m", "e">>)>>,
                    <<<<"t", "i", "t", "l", "e", "s">>, Or(OGet(e, <<"t", "i", "t", "l", "e", "s">>), List(<<>>))>>,
                    <<<<"r", "e", "a", "l", "m">>, OGet(e, <<"r", "e", "a", "l", "m">>)>>,
                    <<<<"c", "o", "u", "r", "t">>, OGet(e, <<"c", "o", "u", "r", "t">>)>>,
                    <<<<"d", "o", "m", "a", "i", "n", "s">>, Or(OGet(e, <<"d", "o", "m", "a", "i", "n", "s">>), List(<<>>))>> >>)])

build_creatures_index(entries) ==
    List([i \in DOMAIN entries |->
        LET e == entries[i]
        IN ODict(<< <<<<"i", "d">>, OGet(e, <<"i", "d">>)>>,
                    <<<<"n", "a", "m", "e">>, OGet(e, <<"n", "a", "m", "e">>)>>,
                    <<<<"k", "i", "n", "d">>, OGet(e, <<"k", "i", "n", "d">>)>>,
                    <<<<"l", "o", "c", "a", "t", "i", "o", "n">>, OGet(e, <<"l", "o", "c", "a", "t", "i", "o", "n">>)>>,
                    <<<<"r", "e", "g", "i", "o", "n">>, OGet(e, <<"r", "e", "g", "i", "o", "n">>)>>,
                    <<<<"g", "r", "o", "u", "p">>, OGet(OGet(e, <<"s", "o", "u", "r", "c", "e">>), <<"g", "r", "o", "u", "p">>)>> >>)])

build_realms_index(entries) ==
    List([i \in DOMAIN entries |->
        LET e == entries[i]
        IN ODict(<< <<<<"i", "d">>, OGet(e, <<"i", "d">>)>>,
                    <<<<"n", "a", "m", "e">>, OGet(e, <<"n", "a", "m", "e">>)>>,
                    <<<<"d", "o", "m", "a", "i", "n", "s">>, Or(OGet(e, <<"d", "o", "m", "a", "i", "n", "s">>), List(<<>>))>>,
                    <<<<"r", "u", "l", "e", "r">>, OGet(e, <<"r", "u", "l", "e", "r">>)>>,
                    <<<<"c", "a", "p", "i", "t", "a", "l">>, OGet(e, <<"c", "a", "p", "i", "t", "a", "l">>)>> >>)])

\* bundles[region]["categories"][bucket].append(e)
AddToBundle(bundles, e) ==
    LET region == Or(OGet(e, <<"r", "e", "g", "i", "o", "n">>), Str(<<"U", "n", "c", "a", "t", "e", "g", "o", "r", "i", "z", "e", "d">>)).s
        bucket == danger_bucket(OGet(e, <<"d", "a", "n", "g", "e", "r", "_", "l", "e", "v", "e", "l">>))
        bundle == IF OHas(bundles, region) THEN OGet(bundles, region)
                  ELSE ODict(<< <<<<"r", "e", "g", "i", "o", "n">>, Str(region)>>, <<<<"c", "a", "t", "e", "g", "o", "r", "i", "e", "s">>, EmptyODict>> >>)
        cats == OGet(bundle, <<"c", "a", "t", "e", "g", "o", "r", "i", "e", "s">>)
        listed == Or(OGet(cats, bucket), List(<<>>))
    IN OSet(bundles, region,
            OSet(bundle, <<"c", "a", "t", "e", "g", "o", "r", "i", "e", "s">>, OSet(cats, bucket, List(Append(listed.l, e)))))

RECURSIVE BundleLoop(_, _)
BundleLoop(bundles, entries) ==
    IF entries = <<>> THEN bundles
    ELSE BundleLoop(AddToBundle(bundles, entries[1]), Tail(entries))

\* build_region_bundles(entries): region -> {region, categories: bucket -> entries}
build_region_bundles(entries) == BundleLoop(EmptyODict, entries)

\* "".join(c if c.isalnum() or c in (".", "_", "-") else "_" for c in name)
SafeName(name) ==
    [i \in DOMAIN name |->
        IF IsUpper(name[i]) \/ IsLower(name[i]) \/ name[i] \in Range(DigitChars)
            \/ name[i] \in {".", "_", "-"}
        THEN name[i] ELSE "_"]

\* a file written: its path below the output directory and its content
Written(path, data) == [path |-> path, data |-> data]

\* e.get("name") or e.get("id") or fallback
FileStem(e, fallback) ==
    SafeName(Or(Or(OGet(e, <<"n", "a", "m", "e">>), OGet(e, <<"i", "d">>)), Str(fallback)).s)

\* the file of each entity, below its region when by_region is set
SplitFiles(entries, fallback, by_region) ==
    [i \in DOMAIN entries |->
        Written((IF by_region
                 THEN <<SafeName(PyStr(Or(OGet(entries[i], <<"r", "e", "g", "i", "o", "n">>),
                                          Str(<<"U", "n", "c", "a", "t", "e", "g", "o", "r", "i", "z", "e", "d">>))))>>
                 ELSE <<>>) \o <<FileStem(entries[i], fallback) \o <<".", "j", "s", "o", "n">>>>,
                entries[i])]

\* the bundle file of each region
BundleFiles(bundles) ==
    [i \in DOMAIN bundles.kv |->
        Written(<<<<"r", "e", "g", "i", "o", "n", "s">>, SafeName(bundles.kv[i][1]) \o <<".", "j", "s", "o", "n">>>>, bundles.kv[i][2])]

\* the formatter module a route normalizes with
ModuleOf(route) ==
    CASE route = "normalize-characters" -> "characters"
      [] route = "normalize-creatures" -> "creatures"
      [] route = "refactor-creatures" -> "creatures"
      [] route = "normalize-realms" -> "realms"

\* the default input of a module
DefaultInput(module) ==
    CASE module = "characters" -> <<"l", "o", "r", "e", "/", "c", "h", "a", "r", "a", "c", "t", "e", "r", "s", "/", "c", "h", "a", "r", "a", "c", "t", "e", "r", "s", ".", "j", "s", "o", "n">>
      [] module = "creatures" -> <<"l", "o", "r", "e", "/", "c", "r", "e", "a", "t", "u", "r", "e", "s", "/", "c", "r", "e", "a", "t", "u", "r", "e", "s", ".", "j", "s", "o", "n">>
      [] module = "realms" -> <<"l", "o", "r", "e", "/", "r", "e", "a", "l", "m", "s", "/", "r", "e", "a", "l", "m", "s", ".", "j", "s", "o", "n">>
      [] module = "plots" -> <<"l", "o", "r", "e", "/", "p", "l", "o", "t", "s", "/", "P", "l", "o", "t", "s", ".", "j", "s", "o", "n">>
      [] module = "magic" -> <<"l", "o", "r", "e", "/", "m", "a", "g", "i", "c", "/", "m", "a", "g", "i", "c", "_", "a", "n", "d", "_", "a", "b", "i", "l", "i", "t", "i", "e", "s", ".", "j", "s", "o", "n">>

\* normalize_file(path) up to the parsed document: a missing file, or text that
\* is no JSON, raises
normalize_file(file, normalize(_)) ==
    IF file = Missing THEN Raise("FileNotFoundError")
    ELSE IF ~file.ok THEN Raise("JSONDecodeError")
    ELSE normalize(file.json)

\* normalize_file of each formatter module on its default input, with the
\* module globals as they are
NormalizeCharacters(file, globals) ==
    normalize_file(file, LAMBDA data :
        normalize_character_file(data, DefaultInput("characters"), globals.characters))
NormalizeCreatures(file, globals) ==
    normalize_file(file, LAMBDA data :
        normalize_creatures_file(data, DefaultInput("creatures"), globals.creatures))
NormalizeRealms(file, globals) ==
    normalize_file(file, LAMBDA data :
        normalize_realms_file(data, DefaultInput("realms"), globals.realms))
NormalizePlots(file, globals) ==
    normalize_file(file, LAMBDA data : normalize_plots_file(data, DefaultInput("plots")))
NormalizeMagic(file, globals) ==
    normalize_file(file, LAMBDA data : normalize_magic_file(data, DefaultInput("magic")))

\* the files a normalize route writes with its default options: one per entity
\* and _index.json
RouteFiles(module, entries) ==
    CASE module = "characters" ->
            Append(SplitFiles(entries, <<"c", "h", "a", "r", "a", "c", "t", "e", "r">>, FALSE),
                   Written(<<<<"_", "i", "n", "d", "e", "x", ".", "j", "s", "o", "n">>>>, build_character_index(entries)))
      [] module = "creatures" ->
            Append(SplitFiles(entries, <<"c", "r", "e", "a", "t", "u", "r", "e">>, FALSE),
                   Written(<<<<"_", "i", "n", "d", "e", "x", ".", "j", "s", "o", "n">>>>, build_creatures_index(entries)))
      [] module = "realms" ->
            Append(SplitFiles(entries, <<"r", "e", "a", "l", "m">>, FALSE),
                   Written(<<<<"_", "i", "n", "d", "e", "x", ".", "j", "s", "o", "n">>>>, build_realms_index(entries)))

CompactNote ==
    <<"D", "a", "t", "a", " ", "s", "p", "l", "i", "t", " ", "i", "n", "t", "o", " ", "l", "o", "r", "e", "/", "c", "r", "e", "a", "t", "u", "r", "e", "s", "/", "f", "o", "r", "m", "a", "t", "t", "e", "d", " ", "(", "p", "e", "r", "-", "c", "r", "e", "a", "t", "u", "r", "e", ")", " ", "a", "n", "d", " ">>
        \o <<"l", "o", "r", "e", "/", "c", "r", "e", "a", "t", "u", "r", "e", "s", "/", "f", "o", "r", "m", "a", "t", "t", "e", "d", "/", "r", "e", "g", "i", "o", "n", "s", " ", "(", "b", "u", "n", "d", "l", "e", "s", ")", ".">>

\* the compact index refactor-creatures leaves in place of the source
CompactCreatures(bundles, entries) ==
    ODict(<< <<<<"c", "r", "e", "a", "t", "u", "r", "e", "s", "_", "b", "y", "_", "r", "e", "g", "i", "o", "n">>,
               List([i \in DOMAIN bundles.kv |->
                        ODict(<< <<<<"r", "e", "g", "i", "o", "n">>, Str(bundles.kv[i][1])>>,
                                 <<<<"f", "i", "l", "e">>, Str(<<"l", "o", "r", "e", "/", "c", "r", "e", "a", "t", "u", "r", "e", "s", "/", "f", "o", "r", "m", "a", "t", "t", "e", "d", "/", "r", "e", "g", "i", "o", "n", "s", "/">>
                                                \o SafeName(bundles.kv[i][1])
                                                \o <<".", "j", "s", "o", "n">>)>> >>)])>>,
             <<<<"t", "o", "t", "a", "l">>, Num(Len(entries))>>,
             <<<<"n", "o", "t", "e">>, Str(CompactNote)>> >>)

\* the files refactor-creatures writes with its default options: one per entity
\* below its region, one bundle per region, the backup and the compact source
RefactorFiles(input, entries) ==
    LET bundles == build_region_bundles(entries)
    IN SplitFiles(entries, <<"c", "r", "e", "a", "t", "u", "r", "e">>, TRUE) \o BundleFiles(bundles)
        \o <<Written(<<<<"c", "r", "e", "a", "t", "u", "r", "e", "s", ".", "j", "s", "o", "n", ".", "b", "a", "k">>>>, input),
             Written(<<<<"c", "r", "e", "a", "t", "u", "r", "e", "s", ".", "j", "s", "o", "n">>>>, CompactCreatures(bundles, entries))>>

\* the response of a normalization route and the files it writes, once
\* normalize_file has returned the entries or raised
RouteResponse(route, after, input, entries) ==
    IF Raised(entries)
    THEN [globals |-> after, loaded |-> TRUE, status |-> 500,
          entries |-> entries, written |-> <<>>]
    ELSE [globals |-> after, loaded |-> TRUE, status |-> 200,
          entries |-> entries,
          written |-> IF route = "refactor-creatures"
                      THEN RefactorFiles(input, entries.l)
                      ELSE RouteFiles(ModuleOf(route), entries.l)]

\* the route after set_synonyms: its normalizer reads the module's own table
RouteNormalize(route, after, input, normalize(_, _)) ==
    RouteResponse(route, after, input, normalize(input, after))

\* a normalization route with its default options, on the mappings file and
\* the input file it finds: the synonyms it loads and sets, the response and
\* the files written
NormalizeRoute(route, globals, mappings, input, normalize(_, _)) ==
    IF route # "refactor-creatures" /\ input = Missing
    THEN [globals |-> globals, loaded |-> FALSE, status |-> 400,
          entries |-> List(<<>>), written |-> <<>>]
    ELSE RouteNormalize(route,
                        set_synonyms(globals, load_synonyms(globals.characters, mappings)),
                        input, normalize)

-----------------------------------------------------------------------------
(* The formatter and scheduler state while the other models run *)

NoCall == [op |-> "none"]
IdleFormat == SYNONYMS = DefaultSynonyms /\ call = NoCall

NoSched == [imported |-> FALSE, threads |-> <<>>]
IdleSched == sched = NoSched

\* no schema has been looked at
NoSchema == [props |-> <<>>, runs |-> <<>>]

\* no pull is under way
NoPager == [pc |-> "idle"]
NoRace == [pc |-> "idle"]

\* no creatures source is looked at
NoDisk == [runs |-> <<>>]

IdleSchema == schema = NoSchema
IdlePager == pager = NoPager
IdleRace == race = NoRace
IdleDisk == disk = NoDisk
IdleOther == IdleSchema /\ IdlePager /\ IdleRace /\ IdleDisk

\* no handler has run
NoBatch == [handler |-> "none", results |-> EmptyDict, runs |-> 0]

NoPages == [c \in AllCategories \ {Category} |-> <<>>]

\* the index and batch state while the sync model runs
IdleIndex == lore = NoLore /\ indexes = EmptyDict /\ master = EmptyDict
IdleBatch == batch = NoBatch /\ others = NoPages

InitSync ==
    /\ \/ /\ \E e \in EntitySamples : fs = [p \in {FileLy} |-> Json(Dict(e))]
          /\ db \in {RemoteSamples_i \in RemoteSamples : Len(RemoteSamples_i) <= 1}
          /\ env = EnvOk
       \/ /\ \E second \in SecondFiles :
                fs = [p \in {FileLy} \cup DOMAIN second |->
                        IF p = FileLy THEN Json(Dict(BaseEntity(Ly, RawFile))) ELSE second[p]]
          /\ db \in RemoteSamples
          /\ env \in EnvSamples
    /\ mapping \in MappingSamples
    /\ hist = <<>>

Init == InitSync /\ IdleIndex /\ IdleBatch /\ IdleFormat /\ IdleSched /\ IdleOther

\* a variant of push that saves each entry it has built back to its file
PushToNotion_SavesEntries ==
    /\ Len(hist) < MaxOps
    /\ \E failAt \in 0..Len(list_files_for(fs, Category)) :
      \E r \in {push_to_notion(fs, db, mapping, Category, failAt)} :
        LET pre == SyncPrecondition(env, Category)
            built(p) == {k \in DOMAIN r.log : r.log[k].file = p /\ r.log[k].built}
        IN IF pre # ""
           THEN /\ failAt = 0
                /\ hist' = Append(hist, [op |-> "push", error |-> pre, failAt |-> 0,
                                         result |-> EmptyDict, log |-> <<>>,
                                         fsBefore |-> fs, dbBefore |-> db])
                /\ UNCHANGED <<fs, db>>
           ELSE /\ db' = r.pages
                /\ hist' = Append(hist, [op |-> "push", error |-> "", failAt |-> failAt,
                                         result |-> r.result, log |-> r.log,
                                         fsBefore |-> fs, dbBefore |-> db])
                /\ fs' = [p \in DOMAIN fs |->
                            IF built(p) # {}
                            THEN Json(Dict(r.log[CHOOSE k \in built(p) : TRUE].entry))
                            ELSE fs[p]]
    /\ UNCHANGED <<mapping, env, formatVars, sched, indexVars, others, batch, otherVars>>

\* push_to_notion(category): raises on a failed precondition, else runs the batch;
\* failAt picks the file whose remote call raises (0: no remote failure)
PushToNotion ==
    /\ Len(hist) < MaxOps
    /\ \E failAt \in 0..Len(list_files_for(fs, Category)) :
      \E r \in {push_to_notion(fs, db, mapping, Category, failAt)} :
        LET pre == SyncPrecondition(env, Category)
        IN IF pre # ""
           THEN /\ failAt = 0
                /\ hist' = Append(hist, [op |-> "push", error |-> pre, failAt |-> 0,
                                         result |-> EmptyDict, log |-> <<>>,
                                         fsBefore |-> fs, dbBefore |-> db])
                /\ UNCHANGED <<fs, db>>
           ELSE /\ db' = r.pages
                /\ hist' = Append(hist, [op |-> "push", error |-> "", failAt |-> failAt,
                                         result |-> r.result, log |-> r.log,
                                         fsBefore |-> fs, dbBefore |-> db])
                /\ UNCHANGED fs
    /\ UNCHANGED <<mapping, env, formatVars, sched, indexVars, others, batch, otherVars>>

\* pull_from_notion(category); failAt picks the record whose save_json raises
PullFromNotion ==
    /\ Len(hist) < MaxOps
    /\ \E failAt \in 0..Len(db) :
      \E r \in {pull_from_notion(fs, db, mapping, Category, failAt)} :
        LET pre == SyncPrecondition(env, Category)
        IN IF pre # ""
           THEN /\ failAt = 0
                /\ hist' = Append(hist, [op |-> "pull", error |-> pre, failAt |-> 0,
                                         result |-> EmptyDict, log |-> <<>>,
                                         fsBefore |-> fs, dbBefore |-> db])
                /\ UNCHANGED <<fs, db>>
           ELSE /\ fs' = r.files
                /\ hist' = Append(hist, [op |-> "pull", error |-> "", failAt |-> failAt,
                                         result |-> r.result, log |-> r.log,
                                         fsBefore |-> fs, dbBefore |-> db])
                /\ UNCHANGED db
    /\ UNCHANGED <<mapping, env, formatVars, sched, indexVars, others, batch, otherVars>>

\* pull_from_notion(category) when a databases.query of the pagination loop raises:
\* the exception leaves the function, nothing is written
PullQueryFails ==
    /\ Len(hist) < MaxOps
    /\ SyncPrecondition(env, Category) = ""
    /\ hist' = Append(hist, [op |-> "pull", error |-> "query failed", failAt |-> 0,
                             result |-> EmptyDict, log |-> <<>>,
                             fsBefore |-> fs, dbBefore |-> db])
    /\ UNCHANGED <<fs, db, mapping, env, formatVars, sched, indexVars, others, batch, otherVars>>

Next == PushToNotion \/ PullFromNotion \/ PullQueryFails

Spec == Init /\ [][Next]_vars

-----------------------------------------------------------------------------
(* Properties of push and pull, stated over the history of operations *)

\* the local files after the i-th operation of the history
FilesAfter(i) == IF i = Len(hist) THEN fs ELSE hist[i + 1].fsBefore

\* the remote pages after the i-th operation of the history
PagesAfter(i) == IF i = Len(hist) THEN db ELSE hist[i + 1].dbBefore

\* an operation that ran its batch (no precondition or query error)
Ran(i, op) == hist[i].op = op /\ hist[i].error = ""

\* the indexes of the log entries of operation i with the given outcomes
Entries(i, outcomes) == {j \in DOMAIN hist[i].log : hist[i].log[j].outcome \in outcomes}

\* a local file that holds an entity (a JSON object)
IsEntityFile(files, p) == p \in DOMAIN files /\ files[p].ok /\ IsDict(files[p].json)

\* the field paths present in an object, down to the second level
PathsOf(d) ==
    {<<k>> : k \in DOMAIN d}
        \cup UNION {{<<k, j>> : j \in DOMAIN d[k].d} : k \in {x \in DOMAIN d : IsDict(d[x])}}

MappedPaths == {mapping[i].json : i \in DOMAIN mapping}

IsPrefix(a, b) == Len(a) <= Len(b) /\ SubSeq(b, 1, Len(a)) = a

\* the path is a mapped path, lies inside one, or contains one
OverlapsMapped(q) == \E m \in MappedPaths : IsPrefix(q, m) \/ IsPrefix(m, q)

\* C1: two pushes in succession, the local files unchanged in between and no
\* remote call failing: the second push creates no page.
C1_SecondPushCreatesNothing ==
    \A i \in 1..(Len(hist) - 1) :
        (/\ Ran(i, "push") /\ Ran(i + 1, "push")
         /\ hist[i].failAt = 0 /\ hist[i + 1].failAt = 0
         /\ hist[i].fsBefore = hist[i + 1].fsBefore)
        => hist[i + 1].result.created = 0

\* C2 as stated: a pull into an existing entity file leaves every field that is
\* not a mapped path with the value it had (fields holding a value, not an object).
C2_UnmappedFieldsKept ==
    \A i \in DOMAIN hist : Ran(i, "pull") =>
        \A j \in Entries(i, {"written"}) :
            LET l == hist[i].log[j]
                after == IF j = Len(hist[i].log) THEN FilesAfter(i)
                         ELSE hist[i].log[j + 1].before
            IN IsEntityFile(l.before, l.dest) =>
                \A q \in PathsOf(l.before[l.dest].json.d) \ MappedPaths :
                    LET old == get_by_path(l.before[l.dest].json, q)
                    IN (old # Null /\ ~IsDict(old))
                        => get_by_path(after[l.dest].json, q) = old

\* C2 amended: a pull into an existing entity file leaves every field whose path
\* is not a mapped path, does not lie inside one and does not contain one with
\* the value it had; no such field appears or disappears.
C2_NonOverlappingFieldsKept ==
    \A i \in DOMAIN hist : Ran(i, "pull") =>
        \A j \in Entries(i, {"written"}) :
            LET l == hist[i].log[j]
                after == IF j = Len(hist[i].log) THEN FilesAfter(i)
                         ELSE hist[i].log[j + 1].before
            IN IsEntityFile(l.before, l.dest) =>
                /\ IsEntityFile(after, l.dest)
                /\ \A q \in PathsOf(l.before[l.dest].json.d)
                                \cup PathsOf(after[l.dest].json.d) :
                        ~OverlapsMapped(q)
                            => get_by_path(after[l.dest].json, q)
                                    = get_by_path(l.before[l.dest].json, q)

\* a pull changed a mapped field of an existing entity file that also holds
\* unmapped fields
C2_Witness ==
    \E i \in DOMAIN hist : Ran(i, "pull") /\
        \E j \in Entries(i, {"written"}) :
            LET l == hist[i].log[j]
            IN /\ IsEntityFile(l.before, l.dest)
               /\ IsEntityFile(FilesAfter(i), l.dest)
               /\ get_by_path(l.before[l.dest].json, <<"court">>)
                    # get_by_path(FilesAfter(i)[l.dest].json, <<"court">>)
               /\ get_by_path(FilesAfter(i)[l.dest].json, <<"notes">>) # Null
               /\ get_by_path(FilesAfter(i)[l.dest].json, <<"appearance", "hair">>) # Null

\* the value is in the form the declared property type stores without conversion
Native(type, v) ==
    CASE type = "multi_select" -> v.t = "list" /\ \A k \in DOMAIN v.l : v.l[k].t = "str"
      [] type = "number" -> v.t = "num"
      [] type = "checkbox" -> v.t = "bool"
      [] OTHER -> v.t = "str"

\* file p was pushed to page pg by push i, no later file of that push went to the
\* same page, and the pull that follows wrote no other page into p
SoleRoundTrip(i, j) ==
    LET e == hist[i].log[j]
    IN /\ \A k \in Entries(i, {"created", "updated"}) :
            hist[i].log[k].page = e.page => k <= j
       /\ \A k \in Entries(i + 1, {"written"}) :
            hist[i + 1].log[k].dest = e.file => hist[i + 1].log[k].page = e.page

\* C3 as stated: a push followed by a pull leaves every mapped field of every
\* pushed entity, of any declared type, with the value it had before the push.
C3_RoundTripEveryField ==
    \A i \in 1..(Len(hist) - 1) : (Ran(i, "push") /\ Ran(i + 1, "pull")) =>
        \A j \in Entries(i, {"created", "updated"}) :
            LET p == hist[i].log[j].file
            IN \A r \in DOMAIN mapping :
                get_by_path(FilesAfter(i + 1)[p].json, mapping[r].json)
                    = get_by_path(hist[i].fsBefore[p].json, mapping[r].json)

\* C3 amended: a push followed by a pull leaves a mapped field of a pushed entity
\* with the value it had before the push when the field is not source.file, its
\* value is non-null and in the native form of its declared type, and the entity's
\* file and its remote page correspond one to one in the two batches.
C3_RoundTripNativeFields ==
    \A i \in 1..(Len(hist) - 1) : (Ran(i, "push") /\ Ran(i + 1, "pull")) =>
        \A j \in Entries(i, {"created", "updated"}) :
            LET p == hist[i].log[j].file
            IN SoleRoundTrip(i, j) =>
                \A r \in DOMAIN mapping :
                    LET v == get_by_path(hist[i].fsBefore[p].json, mapping[r].json)
                    IN (/\ mapping[r].json # <<"source", "file">>
                        /\ v # Null
                        /\ Native(mapping[r].type, v))
                        => get_by_path(FilesAfter(i + 1)[p].json, mapping[r].json) = v

\* a push overwrote the stale values of an existing page with native local
\* values, and the pull that followed wrote that page back into the pushed file
C3_Witness ==
    \E i \in 1..(Len(hist) - 1) : Ran(i, "push") /\ Ran(i + 1, "pull") /\
        \E j \in Entries(i, {"updated"}) :
            LET e == hist[i].log[j]
                old == hist[i].dbBefore[e.page].props
                local == hist[i].fsBefore[e.file].json
            IN /\ SoleRoundTrip(i, j)
               /\ \E k \in Entries(i + 1, {"written"}) :
                    hist[i + 1].log[k].dest = e.file /\ hist[i + 1].log[k].page = e.page
               /\ "Titles" \in DOMAIN old
               /\ from_notion_prop("multi_select", old["Titles"])
                    # get_by_path(local, <<"titles">>)
               /\ Native("multi_select", get_by_path(local, <<"titles">>))
               /\ Len(get_by_path(local, <<"titles">>).l) > 1
               /\ get_by_path(FilesAfter(i + 1)[e.file].json, <<"titles">>)
                    = get_by_path(local, <<"titles">>)

\* C4: in the payload a push builds for an entity, a mapped property is present
\* exactly when the entity's value at the mapped path is non-null (the entity as
\* push holds it, source.file and source.category set); a page created from the
\* payload holds exactly those properties.
C4_PayloadHasExactlyNonNullFields ==
    \A i \in DOMAIN hist : Ran(i, "push") =>
        \A j \in DOMAIN hist[i].log :
            LET e == hist[i].log[j]
            IN e.built =>
                /\ \A r \in DOMAIN mapping :
                        (mapping[r].prop \in DOMAIN e.props)
                            <=> (get_by_path(Dict(e.entry), mapping[r].json) # Null)
                /\ DOMAIN e.props \subseteq {mapping[r].prop : r \in DOMAIN mapping}
                /\ e.outcome = "created"
                        => DOMAIN PagesAfter(i)[e.page].props = DOMAIN e.props

\* a push created a page for an entity with a null mapped field: the property
\* is not in the payload, the title is
C4_Witness ==
    \E i \in DOMAIN hist : Ran(i, "push") /\
        \E j \in Entries(i, {"created"}) :
            LET e == hist[i].log[j]
            IN /\ get_by_path(Dict(e.entry), <<"court">>) = Null
               /\ "Court" \notin DOMAIN e.props
               /\ "Name" \in DOMAIN e.props

\* C5: a failure on one entity does not end the batch: a push attempts every file
\* of the category and a pull every record, in order, and the counts returned
\* count exactly the entities that succeeded.
C5_FailureDoesNotAbortBatch ==
    \A i \in DOMAIN hist :
        /\ Ran(i, "push") =>
            LET order == list_files_for(hist[i].fsBefore, Category)
                log == hist[i].log
            IN /\ Len(log) = Len(order)
               /\ \A j \in DOMAIN log : log[j].file = order[j]
               /\ \A j \in DOMAIN log :
                    (/\ j # hist[i].failAt
                     /\ IsEntityFile(hist[i].fsBefore, order[j])
                     /\ IsDict(DictGet(hist[i].fsBefore[order[j]].json.d, "source")))
                    => log[j].outcome \in {"created", "updated"}
               /\ hist[i].result.created = Cardinality(Entries(i, {"created"}))
               /\ hist[i].result.updated = Cardinality(Entries(i, {"updated"}))
               /\ hist[i].result.total = Cardinality(Entries(i, {"created", "updated"}))
               /\ Len(PagesAfter(i)) = Len(hist[i].dbBefore) + hist[i].result.created
        /\ Ran(i, "pull") =>
            LET log == hist[i].log
            IN /\ Len(log) = Len(hist[i].dbBefore)
               /\ \A j \in DOMAIN log : log[j].page = hist[i].dbBefore[j].id
               /\ \A j \in DOMAIN log : j # hist[i].failAt => log[j].outcome = "written"
               /\ hist[i].result.written = Cardinality(Entries(i, {"written"}))

\* the remote call for the first of two entities failed and the second entity
\* was pushed: one success counted
C5_Witness ==
    \E i \in DOMAIN hist :
        /\ Ran(i, "push")
        /\ hist[i].failAt = 1
        /\ Len(hist[i].log) = 2
        /\ hist[i].log[1].outcome = "failed"
        /\ hist[i].log[2].outcome \in {"created", "updated"}
        /\ hist[i].result.total = 1

-----------------------------------------------------------------------------
(* The index state machine: generate_master_index over the lore directories *)

\* the sync state while the index model runs
IdleSync ==
    /\ fs = [p \in {FileLy} |-> Json(Dict(BaseEntity(Ly, RawFile)))]
    /\ db = <<>>
    /\ mapping = FullMapping
    /\ hist = <<>>

InitIndex ==
    /\ \E lr \in LoreSamples : lore = LoreOf(lr)
    /\ indexes = EmptyDict
    /\ master = EmptyDict
    /\ env = EnvOk
    /\ IdleSync
    /\ IdleBatch
    /\ IdleFormat
    /\ IdleSched
    /\ IdleOther

\* /generate-indexes: the five index files and masterindex.json are written
GenerateMasterIndex ==
    /\ \E g \in {generate_master_index(lore)} :
        /\ indexes' = g.indexes
        /\ master' = g.master
    /\ UNCHANGED <<lore, env, formatVars, sched, syncVars, others, batch, otherVars>>

NextIndex == GenerateMasterIndex

SpecIndex == InitIndex /\ [][NextIndex]_vars

\* the categories whose index holds an entry of the name, in CATEGORIES order
Holders(n) ==
    SelectSeq(CATEGORIES, LAMBDA c : \E k \in DOMAIN indexes[c] : indexes[c][k].name = n)

\* the entries of the name in the index of a category
EntriesNamed(c, n) == {k \in DOMAIN indexes[c] : indexes[c][k].name = n}

IndexedNames == UNION {{indexes[c][k].name : k \in DOMAIN indexes[c]} : c \in DOMAIN indexes}

\* C8: after generate_master_index a name is a key of the crosslink table only
\* if index entries with that name exist in two or more different categories.
C8_CrosslinkKeysSpanCategories ==
    master # EmptyDict =>
        \A n \in DOMAIN master.crosslinks : Len(Holders(n)) >= 2

\* C9: for a name with exactly one entry in each of k >= 2 categories and none
\* elsewhere, crosslinks[name] is exactly those k {category, file} entries, in
\* the order of CATEGORIES.
C9_OneLinkPerCategoryInOrder ==
    master # EmptyDict =>
        \A n \in IndexedNames :
            (/\ Len(Holders(n)) >= 2
             /\ \A c \in Range(CATEGORIES) : Cardinality(EntriesNamed(c, n)) <= 1)
            => /\ n \in DOMAIN master.crosslinks
               /\ master.crosslinks[n] =
                    [i \in DOMAIN Holders(n) |->
                        [category |-> Holders(n)[i],
                         file |-> indexes[Holders(n)[i]][
                                    CHOOSE k \in EntriesNamed(Holders(n)[i], n) : TRUE].file]]

\* a name with one entry in each of characters, magic and realms and in no
\* other category has its three crosslinks
C9_Witness ==
    /\ master # EmptyDict
    /\ \E n \in IndexedNames :
        /\ Holders(n) = <<"characters", "magic", "realms">>
        /\ \A c \in Range(CATEGORIES) : Cardinality(EntriesNamed(c, n)) <= 1
        /\ Len(master.crosslinks[n]) = 3

\* the entries build_category_index yields from the files of one directory
EntriesOfDir(c, inFormatted) ==
    LET folder == IF inFormatted THEN lore[c].formatted ELSE lore[c].raw
        order == SortStems(DOMAIN folder)
    IN Concat([i \in DOMAIN order |->
            FileEntries(folder[order[i]], order[i], RelativeFile(c, inFormatted, order[i]), c)])

\* C10: the index of a category is read from its formatted directory only, when
\* that exists and holds at least one document, and from the raw category
\* directory when formatted is absent or holds no document.
C10_FormattedWhenNonEmptyElseRaw ==
    master # EmptyDict =>
        \A c \in Range(CATEGORIES) :
            IF lore[c].hasFormatted /\ DOMAIN lore[c].formatted # {}
            THEN indexes[c] = EntriesOfDir(c, TRUE)
            ELSE indexes[c] = EntriesOfDir(c, FALSE)

-----------------------------------------------------------------------------
(* The batch state machine: the sync routes and the scheduler's batches *)

EnvBatchSamples ==
    {[token |-> t, dbs |-> d, maps |-> m] :
        t \in BOOLEAN,
        d \in {AllCategories, {}, AllCategories \ {Category}, {Category}},
        m \in {CATEGORY_DIRS, {}}}

LoreBatchSamples ==
    {LoreOf([c \in AllCategories |-> "formatted"]),
     LoreOf([c \in AllCategories |->
                CASE c = "characters" -> "other"
                  [] c = "creatures" -> "raw"
                  [] OTHER -> "none"])}

InitBatch ==
    /\ lore \in LoreBatchSamples
    /\ indexes = EmptyDict
    /\ master = EmptyDict
    /\ env \in EnvBatchSamples
    /\ IdleSync
    /\ IdleBatch
    /\ IdleFormat
    /\ IdleSched
    /\ IdleOther

Ran1(handler, results) == [handler |-> handler, results |-> results, runs |-> batch.runs + 1]

\* /sync-<category>-to-notion
SyncSingle ==
    /\ batch.runs < MaxRuns
    /\ \E c \in AllCategories \cup {"items"} :
        IF c \notin Range(CATEGORIES)
        THEN /\ batch' = Ran1("sync_single", [x \in {c} |-> ErrorResult("Unknown category")])
             /\ UNCHANGED <<db, others>>
        ELSE LET r == sync_index_to_notion(env, indexes, DbOf(c, db, others), c)
             IN /\ batch' = Ran1("sync_single", [x \in {c} |-> r.result])
                /\ db' = IF c = Category THEN r.pages ELSE db
                /\ others' = IF c = Category THEN others
                             ELSE [others EXCEPT ![c] = r.pages]
    /\ UNCHANGED <<fs, mapping, env, formatVars, sched, hist, indexVars, otherVars>>

\* /sync-all-to-notion: every key of NOTION_DATABASES, configured or skipped
SyncAll ==
    /\ batch.runs < MaxRuns
    /\ LET r == [c \in Range(NOTION_DATABASES) |->
                    sync_index_to_notion(env, indexes, DbOf(c, db, others), c)]
       IN /\ batch' = Ran1("sync_all",
                [c \in Range(NOTION_DATABASES) |->
                    IF c \in env.dbs THEN r[c].result
                    ELSE [kind |-> "skipped", calls |-> 0]])
          /\ db' = IF Category \in env.dbs THEN r[Category].pages ELSE db
          /\ others' = [c \in DOMAIN others |->
                            IF c \in env.dbs THEN r[c].pages ELSE others[c]]
    /\ UNCHANGED <<fs, mapping, env, formatVars, sched, hist, indexVars, otherVars>>

\* the body shared by the four batches of full syncs
RunBatch(handler, kind, oneTry) ==
    \E st \in {BatchLoop([fs |-> fs, db |-> db, others |-> others,
                          results |-> EmptyDict, raised |-> FALSE],
                         1, kind, env, mapping, oneTry)} :
        /\ batch' = Ran1(handler, st.results)
        /\ fs' = st.fs
        /\ db' = st.db
        /\ others' = st.others

\* /publish-all; authorized is the outcome of _check_secret
PublishAll ==
    /\ batch.runs < MaxRuns
    /\ \E authorized \in BOOLEAN :
        IF ~authorized
        THEN /\ batch' = Ran1("publish_all",
                              [x \in {"error"} |-> ErrorResult("Unauthorized")])
             /\ UNCHANGED <<fs, db, others>>
        ELSE RunBatch("publish_all", "push", FALSE)
    /\ UNCHANGED <<mapping, env, formatVars, sched, hist, indexVars, otherVars>>

\* /pull-all
PullAll ==
    /\ batch.runs < MaxRuns
    /\ \E authorized \in BOOLEAN :
        IF ~authorized
        THEN /\ batch' = Ran1("pull_all",
                              [x \in {"error"} |-> ErrorResult("Unauthorized")])
             /\ UNCHANGED <<fs, db, others>>
        ELSE RunBatch("pull_all", "pull", FALSE)
    /\ UNCHANGED <<mapping, env, formatVars, sched, hist, indexVars, otherVars>>

\* the scheduler runs only with a token and at least one database id
SchedulerEnabled == env.token /\ env.dbs # {}

\* _do_publish_all_internal, called by the scheduler's worker
DoPublishAllInternal ==
    /\ batch.runs < MaxRuns
    /\ SchedulerEnabled
    /\ RunBatch("_do_publish_all_internal", "push", TRUE)
    /\ UNCHANGED <<mapping, env, formatVars, sched, hist, indexVars, otherVars>>

\* _do_pull_all_internal, called by the scheduler's worker
DoPullAllInternal ==
    /\ batch.runs < MaxRuns
    /\ SchedulerEnabled
    /\ RunBatch("_do_pull_all_internal", "pull", TRUE)
    /\ UNCHANGED <<mapping, env, formatVars, sched, hist, indexVars, otherVars>>

NextBatch ==
    \/ GenerateMasterIndex
    \/ SyncSingle
    \/ SyncAll
    \/ PublishAll
    \/ PullAll
    \/ DoPublishAllInternal
    \/ DoPullAllInternal

SpecBatch == InitBatch /\ [][NextBatch]_vars

\* a category's sync lacks its token or its database id
LacksConfig(c) == ~env.token \/ c \notin env.dbs

\* C7: a sync operation whose token or database id is missing gives an error
\* result (for sync-all: the skipped status) and makes no remote call, and a
\* batch leaves no category out that its guards admit.
C7_MissingConfigIsRefused ==
    /\ batch.handler \in {"sync_single", "sync_all"} =>
        \A c \in (DOMAIN batch.results) \cap Range(CATEGORIES) :
            LacksConfig(c) =>
                /\ batch.results[c].kind \in {"error", "skipped"}
                /\ batch.results[c].calls = 0
    /\ batch.handler = "sync_all" => DOMAIN batch.results = Range(CATEGORIES)
    /\ (batch.handler \in {"publish_all", "pull_all", "_do_publish_all_internal",
                           "_do_pull_all_internal"}
            /\ "error" \notin DOMAIN batch.results) =>
        \A c \in Range(BatchOrder) :
            (SyncModuleImported /\ c \in env.dbs) => c \in DOMAIN batch.results

-----------------------------------------------------------------------------
(* The formatter state machine: the formatters' functions and the          *)
(* normalization routes, applied to sample texts and documents              *)

\* the other state while the formatter model runs
IdleOthers ==
    /\ env = EnvOk
    /\ IdleSync
    /\ IdleIndex
    /\ IdleBatch

InitFormat ==
    /\ SYNONYMS = DefaultSynonyms
    /\ call = NoCall
    /\ IdleOthers
    /\ IdleSched
    /\ IdleOther

\* words of free-text danger descriptions
DangerWords ==
    {<<"e", "x", "t", "r", "e", "m", "e", "l", "y">>, <<"E", "x", "t", "r", "e", "m", "e">>, <<"M", "Y", "T", "H", "I", "C">>, <<"h", "i", "g", "h">>, <<"V", "e", "r", "y">>, <<"D", "e", "a", "d", "l", "y">>, <<"l", "e", "t", "h", "a", "l">>,
     <<"m", "o", "d", "e", "r", "a", "t", "e">>, <<"M", "e", "d", "i", "u", "m">>, <<"l", "o", "w">>, <<"b", "e", "l", "o", "w">>, <<"m", "i", "n", "o", "r">>, <<"t", "h", "r", "e", "a", "t">>, <<"n", "o", "n", "e">>}

\* the danger_level values of entities: None, cleaned text of one or two words, a number
DangerTexts ==
    {Null, Str(<<>>), Num(0), Num(5), Str(<<"e", "x", "t", "r", "e", "m", "e", "l", "y", " ", "h", "i", "g", "h", " ", "t", "h", "r", "e", "a", "t">>)}
        \cup {Str(w) : w \in DangerWords}
        \cup {Str(w1 \o <<" ">> \o w2) : w1 \in DangerWords, w2 \in DangerWords}

\* the operations that leave the formatters ready for the next one: a request
\* to a normalization route of the running application
RouteOps == {"normalize-characters", "normalize-creatures", "normalize-realms",
             "refactor-creatures"}

\* the application has served requests only, or none yet
Serving == call.op \in {"none"} \cup RouteOps

\* danger_bucket(text), as build_region_bundles calls it for an entity
DangerBucket ==
    /\ call = NoCall
    /\ \E text \in DangerTexts :
        call' = [op |-> "danger_bucket", text |-> text, result |-> danger_bucket(text)]
    /\ UNCHANGED <<SYNONYMS, sched, env, syncVars, indexVars, others, batch, otherVars>>

\* the places that call canonicalize_with_synonyms: the module whose SYNONYMS
\* is read, the section, and title_case
CanonSites ==
    {[module |-> "characters", section |-> <<"s", "p", "e", "c", "i", "e", "s">>, title_case |-> FALSE],
     [module |-> "characters", section |-> <<"r", "e", "a", "l", "m">>, title_case |-> TRUE],
     [module |-> "characters", section |-> <<"c", "o", "u", "r", "t">>, title_case |-> TRUE],
     [module |-> "creatures", section |-> <<"t", "y", "p", "e">>, title_case |-> FALSE],
     [module |-> "creatures", section |-> <<"l", "o", "c", "a", "t", "i", "o", "n">>, title_case |-> TRUE],
     [module |-> "creatures", section |-> <<"r", "e", "a", "l", "m">>, title_case |-> TRUE],
     [module |-> "realms", section |-> <<"n", "a", "m", "e">>, title_case |-> TRUE]}

\* raw field values of entries
RawValues ==
    {Str(<<"H", "I", "G", "H", " ", "F", "A", "E">>), Str(<<"h", "i", "g", "h", " ", "f", "a", "e">>), Str(<<" ", "F", "a", "e", "\t">>), Str(<<"f", "a", "e", "U+FFFD">>),
     Str(<<"u", "n", "k", "n", "o", "w", "n", " ", "t", "h", "i", "n", "g">>), Str(<<"U", "n", "k", "n", "o", "w", "n", " ", "T", "h", "i", "n", "g">>), Str(<<"m", "c", "D", "o", "n", "a", "l", "d", "'", "s", " ", "o", "2", "x">>),
     Str(<<"T", "h", "e", " ", " ", "A", "b", "y", "s", "s">>), Str(<<"E", "L", "A", "R", "I", "O", "N">>), Str(<<"n", "o", "r", "t", "h", "e", "r", "n", "U+00A0", "c", "o", "u", "r", "t">>),
     Str(<<"P", "r", "e", "d", "a", "t", "o", "r", "y", " ", "B", "e", "a", "s", "t", "s">>), Str(<<"w", "y", "r", "m">>), Str(<<" ">>), Str(<<>>), Num(7), Null}

\* canonicalize_with_synonyms as the normalizers call it: on the cleaned text of
\* a field, when there is any, with the section of the module's SYNONYMS
Canonicalize ==
    /\ Serving
    /\ \E site \in CanonSites, raw \in RawValues :
        LET value == clean_text(raw)
            table == Section(SYNONYMS[site.module], site.section)
        IN /\ Truthy(value)
           /\ call' = [op |-> "canonicalize", site |-> site, value |-> value.s,
                        table |-> table, title_case |-> site.title_case,
                        result |-> canonicalize_with_synonyms(value.s, table,
                                                              site.title_case)]
    /\ UNCHANGED <<SYNONYMS, sched, env, syncVars, indexVars, others, batch, otherVars>>

\* mappings files: two that add and override synonyms, and files load_synonyms ignores
MapA ==
    ODict(<< <<<<"S", "p", "e", "c", "i", "e", "s">>, ODict(<< <<<<"F", "A", "E">>, Str(<<"S", "i", "d", "h", "e">>)>>,
                                    <<<<"W", "y", "r", "m", "k", "i", "n">>, Str(<<"D", "r", "a", "g", "o", "n">>)>> >>)>>,
             <<<<"t", "y", "p", "e">>, ODict(<< <<<<"W", "y", "r", "m">>, Str(<<"D", "r", "a", "k", "e">>)>> >>)>>,
             <<<<"n", "a", "m", "e">>, ODict(<< <<<<"t", "h", "e", " ", "a", "b", "y", "s", "s">>, Str(<<"T", "h", "e", " ", "A", "b", "y", "s", "s">>)>> >>)>>,
             <<<<"j", "u", "n", "k">>, Num(5)>> >>)
MapB ==
    ODict(<< <<<<"t", "y", "p", "e">>, ODict(<< <<<<"e", "t", "h", "e", "r", "e", "a", "l", " ", "b", "e", "i", "n", "g", "s">>, Str(<<"S", "p", "i", "r", "i", "t">>)>> >>)>> >>)

MappingFiles == {Missing, BadJson, Json(List(<<Num(1)>>)), Json(MapA), Json(MapB)}

\* an object of the given fields
Obj(fields) == ODict(fields)

\* the documents the routes are asked to normalize
RouteInputs(route) ==
    {Missing, BadJson} \cup
    CASE route = "normalize-characters" ->
            {Json(List(<<Obj(<< <<<<"n", "a", "m", "e">>, Str(<<"L", "y">>)>>, <<<<"s", "p", "e", "c", "i", "e", "s">>, Str(<<"F", "A", "E">>)>> >>)>>)),
             Json(List(<<Obj(<< <<<<"n", "a", "m", "e">>, Str(<<"A", "b">>)>>,
                                <<<<"a", "p", "p", "e", "a", "r", "a", "n", "c", "e">>, Str(<<"t", "a", "l", "l">>)>> >>)>>))}
      [] route \in {"normalize-creatures", "refactor-creatures"} ->
            {Json(Obj(<< <<<<"c", "r", "e", "a", "t", "u", "r", "e", "s">>,
                Obj(<< <<<<"N", "o", "r", "t", "h">>,
                    Obj(<< <<<<"W", "i", "s", "p">>, Obj(<< <<<<"t", "y", "p", "e">>, Str(<<"E", "t", "h", "e", "r", "e", "a", "l", " ", "B", "e", "i", "n", "g", "s">>)>>,
                                            <<<<"d", "a", "n", "g", "e", "r">>, Str(<<"h", "i", "g", "h">>)>> >>)>>,
                           <<<<"W", "y", "r", "m">>, Obj(<< <<<<"t", "y", "p", "e">>, Str(<<"w", "y", "r", "m">>)>>,
                                            <<<<"l", "o", "c", "a", "t", "i", "o", "n">>, Str(<<"t", "h", "e", " ", "a", "b", "y", "s", "s">>)>> >>)>> >>)>>
                        >>)>> >>))}
      [] route = "normalize-realms" ->
            {Json(List(<<Obj(<< <<<<"n", "a", "m", "e">>, Str(<<"t", "h", "e", " ", "a", "b", "y", "s", "s">>)>> >>)>>))}

\* a request to a normalization route
RunRoute(route, normalize(_, _)) ==
    /\ Serving
    /\ \E mappings \in MappingFiles, input \in RouteInputs(route) :
        \E r \in {NormalizeRoute(route, SYNONYMS, mappings, input, normalize)} :
            /\ SYNONYMS' = r.globals
            /\ call' = [op |-> route, module |-> ModuleOf(route), mappings |-> mappings,
                        input |-> input, before |-> SYNONYMS, ran |-> r.loaded,
                        set |-> r.globals.characters,
                        used |-> r.globals[ModuleOf(route)],
                        status |-> r.status, entries |-> r.entries,
                        written |-> r.written]
    /\ UNCHANGED <<sched, env, syncVars, indexVars, others, batch, otherVars>>

normalize_characters_route == RunRoute("normalize-characters", NormalizeCharacters)
normalize_creatures_route == RunRoute("normalize-creatures", NormalizeCreatures)
refactor_creatures_route == RunRoute("refactor-creatures", NormalizeCreatures)
normalize_realms_route == RunRoute("normalize-realms", NormalizeRealms)

\* raw character entries: a name, alias keys of one field, relationships and
\* structured fields, in the order the file gives them
CharacterNames ==
    {<<>>, << <<<<"n", "a", "m", "e">>, Str(<<"L", "y">>)>> >>, << <<<<"n", "a", "m", "e">>, Str(<<" ">>)>> >>}
CharacterAliases ==
    {<<>>,
     << <<<<"t", "i", "t", "l", "e">>, Str(<<"K", "i", "n", "g">>)>> >>,
     << <<<<"t", "i", "t", "l", "e">>, Str(<<"K", "i", "n", "g">>)>>, <<<<"t", "i", "t", "l", "e", "s">>, Str(<<"L", "o", "r", "d">>)>> >>,
     << <<<<"r", "o", "l", "e", "_", "i", "n", "_", "c", "o", "s", "m", "i", "c", "_", "o", "r", "d", "e", "r">>, Str(<<"J", "u", "d", "g", "e">>)>>, <<<<"r", "o", "l", "e">>, Str(<<"G", "u", "a", "r", "d">>)>> >>,
     << <<<<"r", "a", "n", "k">>, Str(<<"H", "i", "g", "h">>)>> >>}
CharacterRelationships ==
    {<<>>,
     << <<<<"r", "e", "l", "a", "t", "i", "o", "n", "s", "h", "i", "p", "s">>, Obj(<< <<<<"Q", "u", "e", "e", "n", " ", " ", "M", "a", "b">>, Str(<<"f", "o", "e">>)>> >>)>> >>,
     << <<<<"r", "e", "l", "a", "t", "i", "o", "n", "s", "h", "i", "p", "_", "k", "i", "n", "g", "_", "o", "b", "e", "r", "o", "n">>, Str(<<"a", "l", "l", "y">>)>> >>,
     << <<<<"r", "e", "l", "a", "t", "i", "o", "n", "s", "h", "i", "p", "s">>, Obj(<< <<<<"k", "i", "n", "g", " ", "o", "b", "e", "r", "o", "n">>, Str(<<"f", "o", "e">>)>> >>)>>,
        <<<<"r", "e", "l", "a", "t", "i", "o", "n", "s", "h", "i", "p", "_", "k", "i", "n", "g", "_", "o", "b", "e", "r", "o", "n">>, Str(<<"a", "l", "l", "y">>)>> >>,
     << <<<<"R", "e", "l", "a", "t", "i", "o", "n", "s", "h", "i", "p", "_", "x">>, Str(<<"k", "i", "n">>)>>, <<<<"r", "e", "l", "a", "t", "i", "o", "n", "s", "h", "i", "p", "_", "X">>, Str(<<"f", "o", "e">>)>> >>}
CharacterStructures ==
    {<<>>,
     << <<<<"a", "p", "p", "e", "a", "r", "a", "n", "c", "e">>, Str(<<"t", "a", "l", "l">>)>> >>,
     << <<<<"a", "p", "p", "e", "a", "r", "a", "n", "c", "e">>, Obj(<< <<<<"h", "a", "i", "r">>, Str(<<"r", "e", "d">>)>> >>)>> >>,
     << <<<<"a", "f", "f", "i", "l", "i", "a", "t", "i", "o", "n", "s">>, Num(5)>> >>,
     << <<<<"a", "b", "i", "l", "i", "t", "i", "e", "s">>, Str(<<"f", "i", "r", "e">>)>> >>}
CharacterEntries ==
    {Obj(n \o a \o r \o s) : n \in CharacterNames, a \in CharacterAliases,
                            r \in CharacterRelationships, s \in CharacterStructures}

\* documents of other shapes, around one entry
Shapes(key, e) ==
    {Json(Obj(<< <<key, List(<<e>>)>> >>)),
     Json(Obj(<< <<key, Obj(<< <<<<"G">>, List(<<e>>)>> >>)>> >>)),
     Json(Obj(<< <<key, Obj(<< <<<<"G">>, Obj(<< <<<<"W", "i", "s", "p">>, e>> >>)>> >>)>> >>)),
     Json(Obj(<< <<key, Str(<<"x">>)>> >>)),
     Json(Obj(<< <<<<"W", "i", "s", "p">>, e>> >>)),
     Json(e),
     Json(Num(5)),
     Json(Str(<<"s">>)),
     Json(List(<<Num(5), e>>)),
     BadJson, Missing}

CharacterDocuments ==
    {Json(List(<<e>>)) : e \in CharacterEntries}
        \cup Shapes(<<"c", "h", "a", "r", "a", "c", "t", "e", "r", "s">>, Obj(<< <<<<"n", "a", "m", "e">>, Str(<<"L", "y">>)>>, <<<<"s", "p", "e", "c", "i", "e", "s">>, Str(<<"F", "A", "E">>)>> >>))

\* raw creature entries
CreatureNames == {<<>>, << <<<<"n", "a", "m", "e">>, Str(<<"W", "i", "s", "p">>)>> >>, << <<<<"n", "a", "m", "e">>, Str(<<" ">>)>> >>}
CreatureKinds ==
    {<<>>,
     << <<<<"t", "y", "p", "e">>, Str(<<"E", "t", "h", "e", "r", "e", "a", "l", " ", "B", "e", "i", "n", "g", "s">>)>> >>,
     << <<<<"t", "y", "p", "e">>, Str(<<"w", "y", "r", "m">>)>>, <<<<"k", "i", "n", "d">>, Str(<<"d", "r", "a", "k", "e">>)>> >>,
     << <<<<"k", "i", "n", "d">>, Str(<<"d", "r", "a", "k", "e">>)>>, <<<<"s", "p", "e", "c", "i", "e", "s">>, Str(<<"l", "i", "z", "a", "r", "d">>)>> >>}
CreaturePlaces ==
    {<<>>,
     << <<<<"l", "o", "c", "a", "t", "i", "o", "n">>, Str(<<"t", "h", "e", " ", "a", "b", "y", "s", "s">>)>> >>,
     << <<<<"l", "o", "c", "a", "t", "i", "o", "n">>, Str(<<"W", "r", "a", "i", "t", "h", "w", "o", "o", "d">>)>>, <<<<"h", "a", "b", "i", "t", "a", "t">>, Str(<<"f", "e", "n", "s">>)>> >>,
     << <<<<"d", "a", "n", "g", "e", "r">>, Str(<<"h", "i", "g", "h">>)>>, <<<<"t", "h", "r", "e", "a", "t">>, Str(<<"l", "o", "w">>)>> >>}
CreatureExtras ==
    {<<>>, << <<<<"c", "o", "l", "o", "r">>, Str(<<"r", "e", "d">>)>> >>, << <<<<"s", "i", "z", "e", "s">>, List(<<Num(1)>>)>> >>}
CreatureEntries ==
    {Obj(n \o k \o p \o x) : n \in CreatureNames, k \in CreatureKinds,
                            p \in CreaturePlaces, x \in CreatureExtras}

\* creatures under a group label, with the places and realms the region and
\* realm of a creature are derived from
CreatureGroupLabels == {<<"E", "l", "a", "r", "i", "o", "n", " ", "W", "i", "l", "d", "s">>, <<" ">>, <<" ", "A", "b", "y", "s", "s", " ", "R", "i", "m", " ">>, <<"G">>}
CreatureBodies ==
    {Obj(<<>>),
     Obj(<< <<<<"r", "e", "a", "l", "m">>, Str(<<"e", "l", "y", "s", "i", "o", "n">>)>> >>),
     Obj(<< <<<<"r", "e", "a", "l", "m">>, Str(<<" ">>)>>, <<<<"l", "o", "c", "a", "t", "i", "o", "n">>, Str(<<"N", "o", "r", "t", "h", "e", "r", "n", " ", "C", "o", "u", "r", "t", "s">>)>> >>),
     Obj(<< <<<<"l", "o", "c", "a", "t", "i", "o", "n">>, Str(<<"t", "h", "e", " ", "a", "b", "y", "s", "s">>)>> >>),
     Obj(<< <<<<"l", "o", "c", "a", "t", "i", "o", "n">>, Str(<<"f", "e", "n", "s">>)>> >>),
     Obj(<< <<<<"l", "o", "c", "a", "t", "i", "o", "n">>, Str(<<"A", "b", "y", "s", "s", " ", "o", "f", " ", "E", "l", "a", "r", "i", "o", "n">>)>> >>),
     Obj(<< <<<<"l", "o", "c", "a", "t", "i", "o", "n">>, Str(<<"E", "l", "a", "r", "i", "o", "n", " ", "b", "o", "r", "d", "e", "r">>)>>, <<<<"r", "e", "a", "l", "m">>, Str(<<"t", "h", "e", " ", "i", "g", "n", "i", "s", "y", "r">>)>> >>),
     Obj(<< <<<<"h", "a", "b", "i", "t", "a", "t">>, Str(<<"w", "r", "a", "i", "t", "h", "w", "o", "o", "d">>)>> >>)}
CreatureGroupDocuments ==
    {Json(Obj(<< <<<<"c", "r", "e", "a", "t", "u", "r", "e", "s">>, Obj(<< <<g, Obj(<< <<<<"W", "i", "s", "p">>, b>> >>)>> >>)>> >>)) :
        g \in CreatureGroupLabels, b \in CreatureBodies}

CreatureDocuments ==
    {Json(List(<<e>>)) : e \in CreatureEntries}
        \cup Shapes(<<"c", "r", "e", "a", "t", "u", "r", "e", "s">>, Obj(<< <<<<"n", "a", "m", "e">>, Str(<<"W", "i", "s", "p">>)>>, <<<<"t", "y", "p", "e">>, Str(<<"w", "y", "r", "m">>)>> >>))
        \cup {Json(Obj(<< <<<<"c", "r", "e", "a", "t", "u", "r", "e", "s">>, Obj(<< <<<<"N", "o", "r", "t", "h">>, Obj(<< <<n, Obj(<<>>)>> >>)>> >>)>> >>)) :
                n \in {<<>>, <<" ">>, <<"W", "i", "s", "p">>}}
        \cup CreatureGroupDocuments

\* raw realm entries
RealmNames ==
    {<<>>, << <<<<"n", "a", "m", "e">>, Str(<<"t", "h", "e", " ", "a", "b", "y", "s", "s">>)>> >>, << <<<<"n", "a", "m", "e">>, Str(<<" ">>)>> >>}
RealmRulers ==
    {<<>>,
     << <<<<"r", "u", "l", "e", "r">>, Str(<<"M", "a", "b">>)>> >>,
     << <<<<"r", "u", "l", "e", "r">>, Str(<<"M", "a", "b">>)>>, <<<<"s", "o", "v", "e", "r", "e", "i", "g", "n">>, Str(<<"O", "b", "e", "r", "o", "n">>)>> >>,
     << <<<<"s", "o", "v", "e", "r", "e", "i", "g", "n">>, Str(<<"O", "b", "e", "r", "o", "n">>)>>, <<<<"g", "o", "d", "_", "k", "i", "n", "g">>, Str(<<"N", "y", "x">>)>> >>}
RealmStructures ==
    {<<>>,
     << <<<<"d", "o", "m", "a", "i", "n", "s">>, Num(5)>> >>,
     << <<<<"d", "o", "m", "a", "i", "n", "s">>, List(<<Str(<<"n", "i", "g", "h", "t">>)>>)>> >>,
     << <<<<"c", "l", "i", "m", "a", "t", "e">>, Str(<<"c", "o", "l", "d">>)>> >>,
     << <<<<"m", "o", "o", "n", "s">>, Obj(<< <<<<"c", "o", "u", "n", "t">>, Num(2)>> >>)>> >>}
RealmEntries ==
    {Obj(n \o r \o s) : n \in RealmNames, r \in RealmRulers, s \in RealmStructures}
RealmDocuments ==
    {Json(List(<<e>>)) : e \in RealmEntries}
        \cup Shapes(<<"r", "e", "a", "l", "m", "s">>, Obj(<< <<<<"n", "a", "m", "e">>, Str(<<"t", "h", "e", " ", "a", "b", "y", "s", "s">>)>> >>))
        \cup Shapes(<<"R", "e", "a", "l", "m", "s">>, Obj(<< <<<<"n", "a", "m", "e">>, Str(<<"E", "l", "a", "r", "i", "o", "n">>)>> >>))

\* Plots.json: plots by key
PlotKeys == {<<"W", "a", "r">>, <<" ">>, <<>>}
PlotBodies ==
    {Obj(<<>>),
     Obj(<< <<<<"p", "l", "o", "t", "_", "n", "a", "m", "e">>, Str(<<" ">>)>> >>),
     Obj(<< <<<<"p", "l", "o", "t", "_", "n", "a", "m", "e">>, Str(<<"T", "h", "e", " ", " ", "W", "a", "r">>)>>, <<<<"s", "u", "m", "m", "a", "r", "y">>, Str(<<"l", "o", "n", "g">>)>> >>),
     Obj(<< <<<<"d", "e", "s", "c", "r", "i", "p", "t", "i", "o", "n">>, Obj(<< <<<<"d", "e", "s", "c", "r", "i", "p", "t", "i", "o", "n">>, Str(<<"d", "e", "e", "p">>)>> >>)>> >>),
     Str(<<"t", "e", "x", "t">>),
     Num(5)}
PlotDocuments ==
    {Json(Obj(<< <<<<"p", "l", "o", "t", "s">>, Obj(<< <<k, b>> >>)>> >>)) : k \in PlotKeys, b \in PlotBodies}
        \cup Shapes(<<"p", "l", "o", "t", "s">>, Obj(<< <<<<"p", "l", "o", "t", "_", "n", "a", "m", "e">>, Str(<<"W", "a", "r">>)>> >>))

\* magic_and_abilities.json: the abilities list, or a bare list of entries
MagicItems ==
    {Str(<<"F", "i", "r", "e">>), Str(<<" ">>), Null, Num(5),
     Obj(<< <<<<"n", "a", "m", "e">>, Str(<<"I", "c", "e">>)>>, <<<<"d", "e", "s", "c", "r", "i", "p", "t", "i", "o", "n">>, Str(<<"c", "o", "l", "d">>)>> >>),
     Obj(<< <<<<"n", "a", "m", "e">>, Str(<<" ">>)>> >>),
     Obj(<< <<<<"d", "e", "s", "c", "r", "i", "p", "t", "i", "o", "n">>, Str(<<"c", "o", "l", "d">>)>> >>)}
MagicDocuments ==
    {Json(Obj(<< <<<<"m", "a", "g", "i", "c", "_", "L", "e", "v", "e", "l", "s", "_", "o", "f", "_", "m", "a", "s", "t", "e", "r", "y", "_", "a", "n", "d", "_", "a", "b", "i", "l", "i", "t", "i", "e", "s">>,
                   Obj(<< <<<<"a", "b", "i", "l", "i", "t", "i", "e", "s", "_", "l", "i", "s", "t">>, List(<<i, j>>)>> >>)>> >>)) :
        i \in MagicItems, j \in MagicItems}
        \cup {Json(List(<<i, j>>)) : i \in MagicItems, j \in MagicItems}
        \cup Shapes(<<"m", "a", "g", "i", "c">>, Obj(<< <<<<"n", "a", "m", "e">>, Str(<<"I", "c", "e">>)>> >>))

Documents(module) ==
    CASE module = "characters" -> CharacterDocuments
      [] module = "creatures" -> CreatureDocuments
      [] module = "realms" -> RealmDocuments
      [] module = "plots" -> PlotDocuments
      [] module = "magic" -> MagicDocuments

\* main() of a formatter script, run as `--input FILE` in a process of its own:
\* the module's own table is set, an exception of normalize_file is caught and
\* reported, and the entities are printed under the collection key
Main(module, normalize(_, _)) ==
    /\ call = NoCall
    /\ \E input \in Documents(module) :
        \E entries \in {normalize(input, set_synonyms(SYNONYMS, SYNONYMS[module]))} :
            /\ SYNONYMS' = set_synonyms(SYNONYMS, SYNONYMS[module])
            /\ call' = [op |-> "main", module |-> module, input |-> input, ran |-> TRUE,
                        entries |-> entries,
                        printed |-> IF Raised(entries) THEN List(<<>>) ELSE entries]
    /\ UNCHANGED <<sched, env, syncVars, indexVars, others, batch, otherVars>>

format_characters_main == Main("characters", NormalizeCharacters)
format_creatures_main == Main("creatures", NormalizeCreatures)
format_realms_main == Main("realms", NormalizeRealms)

\* the number of formatted files below which the source is split again
RefactorThreshold(module) == IF module = "magic" THEN 5 ELSE 3

\* the file name of the source an automatic refactor splits
SourceName(module) == IF module = "magic" THEN <<"m", "a", "g", "i", "c", "_", "a", "n", "d", "_", "a", "b", "i", "l", "i", "t", "i", "e", "s", ".", "j", "s", "o", "n">> ELSE <<"P", "l", "o", "t", "s", ".", "j", "s", "o", "n">>

\* the files an automatic refactor writes: one per entity below formatted, the
\* backup of the source and the compact source
AutoFiles(module, input, entries) ==
    [i \in DOMAIN entries |->
        Written(<<<<"f", "o", "r", "m", "a", "t", "t", "e", "d">>,
                  FileStem(entries[i], IF module = "magic" THEN <<"m", "a", "g", "i", "c">> ELSE <<"p", "l", "o", "t">>)
                    \o <<".", "j", "s", "o", "n">>>>, entries[i])]
        \o <<Written(<<SourceName(module) \o <<".", "b", "a", "k">>>>, input),
             Written(<<SourceName(module)>>,
                     Obj(<< <<<<"n", "o", "t", "e">>, Str(<<"D", "a", "t", "a", " ", "s", "p", "l", "i", "t", " ", "i", "n", "t", "o", " ", "l", "o", "r", "e", "/">> \o (IF module = "magic" THEN <<"m", "a", "g", "i", "c">> ELSE <<"p", "l", "o", "t", "s">>) \o <<"/", "f", "o", "r", "m", "a", "t", "t", "e", "d">>)>>,
                            <<<<"t", "o", "t", "a", "l">>, Num(Len(entries))>> >>))>>

\* what a refactor of the magic or plots source leaves once normalize_file has
\* returned the entries or raised
Refactored(module, input, entries) ==
    [op |-> "maybe_refactor", module |-> module, input |-> input,
     ran |-> TRUE, entries |-> entries,
     written |-> IF Raised(entries) THEN <<>> ELSE AutoFiles(module, input, entries.l)]

\* _maybe_refactor_magic and _maybe_refactor_plots: the source is normalized
\* when few formatted files exist; any exception skips the refactor
RefactorCall(module, existing, input, globals, normalize(_, _)) ==
    IF existing < RefactorThreshold(module) /\ input # Missing
    THEN Refactored(module, input, normalize(input, globals))
    ELSE [op |-> "maybe_refactor", module |-> module, input |-> input,
          ran |-> FALSE, entries |-> List(<<>>), written |-> <<>>]

\* a refactor of the magic or plots source at start-up
MaybeRefactor(module, normalize(_, _)) ==
    /\ call = NoCall
    /\ \E existing \in {0, RefactorThreshold(module)}, input \in Documents(module) :
        call' = RefactorCall(module, existing, input, SYNONYMS, normalize)
    /\ UNCHANGED <<SYNONYMS, sched, env, syncVars, indexVars, others, batch, otherVars>>

maybe_refactor_magic == MaybeRefactor("magic", NormalizeMagic)
maybe_refactor_plots == MaybeRefactor("plots", NormalizePlots)

NextFormat ==
    \/ DangerBucket
    \/ Canonicalize
    \/ normalize_characters_route
    \/ normalize_creatures_route
    \/ refactor_creatures_route
    \/ normalize_realms_route
    \/ format_characters_main
    \/ format_creatures_main
    \/ format_realms_main
    \/ maybe_refactor_magic
    \/ maybe_refactor_plots

SpecFormat == InitFormat /\ [][NextFormat]_vars

\* a keyword of the list occurs in the text, whatever the casing of the text
Occurs(keywords, text) ==
    \E k \in Range(keywords) :
        \E i \in 1..Len(text) : \E j \in i..Len(text) : lower(SubSeq(text, i, j)) = k

\* the keyword lists in the order they are tried, with their buckets
Buckets ==
    <<[bucket |-> <<"E", "x", "t", "r", "e", "m", "e">>, keywords |-> ExtremeKeywords],
      [bucket |-> <<"H", "i", "g", "h">>, keywords |-> HighKeywords],
      [bucket |-> <<"M", "o", "d", "e", "r", "a", "t", "e">>, keywords |-> ModerateKeywords],
      [bucket |-> <<"L", "o", "w">>, keywords |-> LowKeywords]>>

\* C11: danger_bucket returns the bucket of the first keyword set, in the order
\* Extreme, High, Moderate, Low, that has a keyword occurring as a
\* case-insensitive substring of the text, and Unknown when no keyword occurs
\* or the text is empty or null.
C11_FirstMatchingBucket ==
    call.op = "danger_bucket" =>
        LET text == IF call.text.t = "str" THEN call.text.s ELSE <<>>
            hits == {i \in DOMAIN Buckets : Occurs(Buckets[i].keywords, text)}
        IN /\ hits = {} => call.result = <<"U", "n", "k", "n", "o", "w", "n">>
           /\ hits # {} =>
                \E i \in hits : /\ \A j \in hits : i <= j
                                /\ call.result = Buckets[i].bucket

\* a text in which keywords of two sets occur has been bucketed
C11_Witness ==
    /\ call.op = "danger_bucket"
    /\ call.text = Str(<<"D", "e", "a", "d", "l", "y", " ", "l", "o", "w">>)
    /\ call.result = <<"H", "i", "g", "h">>

C13_LookupByLoweredValue ==
    call.op = "canonicalize" =>
        LET key == lower(call.value)
        IN IF key \in Range(OKeys(call.table))
           THEN \E i \in DOMAIN call.table.kv :
                    call.table.kv[i][1] = key /\ call.result = call.table.kv[i][2]
           ELSE call.result = Str(IF call.title_case THEN title(call.value)
                                  ELSE call.value)

\* "HIGH FAE" has been looked up in the species table and given "Fae"
C13_Witness ==
    /\ call.op = "canonicalize"
    /\ call.value = <<"H", "I", "G", "H", " ", "F", "A", "E">>
    /\ OGet(call.table, <<"h", "i", "g", "h", " ", "f", "a", "e">>) = Str(<<"F", "a", "e">>)
    /\ call.result = Str(<<"F", "a", "e">>)

\* "unknown thing" has missed with title_case and given "Unknown Thing"
C13_WitnessMiss ==
    /\ call.op = "canonicalize"
    /\ call.value = <<"u", "n", "k", "n", "o", "w", "n", " ", "t", "h", "i", "n", "g">>
    /\ call.title_case
    /\ call.result = Str(<<"U", "n", "k", "n", "o", "w", "n", " ", "T", "h", "i", "n", "g">>)

\* the sections and keys a mappings file gives, as load_synonyms reads them
Given(file) ==
    IF file # Missing /\ file.ok /\ IsODict(file.json)
    THEN SelectSeq(file.json.kv, LAMBDA e : IsODict(e[2])) ELSE <<>>

\* the file gives key k in section s, letter case aside
Gives(file, s, k) ==
    \E i \in DOMAIN Given(file) :
        /\ lower(Given(file)[i][1]) = s
        /\ \E j \in DOMAIN Given(file)[i][2].kv : lower(Given(file)[i][2].kv[j][1]) = k

\* C14: the table a route loads for its category and hands to the setter holds
\* every built-in default key of that category, with the default value unless
\* the mappings file gives the same key, and holds every key of the file in
\* lower case, after any sequence of requests
C14_LoadMergesOntoDefaults ==
    (call.op \in RouteOps /\ call.ran) =>
        LET loaded == SYNONYMS.characters
            defaults == DefaultSynonyms[call.module].kv
        IN /\ \A i \in DOMAIN defaults : \A j \in DOMAIN defaults[i][2].kv :
                LET s == defaults[i][1]
                    k == defaults[i][2].kv[j][1]
                IN /\ OHas(Section(loaded, s), k)
                   /\ OGet(Section(loaded, s), k) # defaults[i][2].kv[j][2]
                        => Gives(call.mappings, s, k)
           /\ \A i \in DOMAIN Given(call.mappings) :
                \A j \in DOMAIN Given(call.mappings)[i][2].kv :
                    OHas(Section(loaded, lower(Given(call.mappings)[i][1])),
                         lower(Given(call.mappings)[i][2].kv[j][1]))

\* the modules with a synonym table of their own
SynonymModules == {"characters", "creatures", "realms"}

\* C15: after a route has called its category's setter with a table, the
\* normalizer of that category reads that table for the documents of the
\* request, and the tables the other categories' normalizers read are the ones
\* they read before the request, whatever requests came earlier
C15_TablesDoNotClash ==
    (call.op \in RouteOps /\ call.ran) =>
        /\ call.used = call.set
        /\ \A m \in SynonymModules \ {call.module} : SYNONYMS[m] = call.before[m]

\* a formatter has normalized a document that is a list of one raw entry
OneEntry(module) ==
    /\ call.op = "main"
    /\ call.module = module
    /\ call.input # Missing /\ call.input.ok
    /\ IsList(call.input.json) /\ Len(call.input.json.l) = 1
    /\ IsODict(call.input.json.l[1])
    /\ ~Raised(call.entries)

RawEntry == call.input.json.l[1]
Entity == call.entries.l[1]

\* the label of a top-level key relationship_<person>: <person> with
\* underscores as spaces and no surrounding whitespace
PersonLabel(k) == StripWs(Replace1(clean_text(Str(From(k, 13))).s, "_", <<" ">>))

\* the relationships a raw character gives, as <<label, value>> in the order
\* they are processed: the relationships object, then the top-level keys
RelationshipSources(raw) ==
    LET relationships == OGet(raw, <<"r", "e", "l", "a", "t", "i", "o", "n", "s", "h", "i", "p", "s">>)
        inner == IF IsODict(relationships)
                 THEN [i \in DOMAIN relationships.kv |->
                        <<clean_text(Str(relationships.kv[i][1])).s,
                          clean_text(relationships.kv[i][2])>>]
                 ELSE <<>>
        top == SelectSeq(raw.kv, LAMBDA e : StartsWith(lower(e[1]), <<"r", "e", "l", "a", "t", "i", "o", "n", "s", "h", "i", "p", "_">>))
    IN inner \o [i \in DOMAIN top |-> <<PersonLabel(top[i][1]), clean_text(top[i][2])>>]

\* C16: the relationships map of a normalized character has one entry per key
\* of the relationships object and per top-level key relationship_<person>,
\* keyed by the cleaned label, and of two source keys with one label the one
\* processed last gives the value
C16_RelationshipsByCleanedLabel ==
    OneEntry("characters") =>
        LET sources == RelationshipSources(RawEntry)
            rels == OGet(Entity, <<"r", "e", "l", "a", "t", "i", "o", "n", "s", "h", "i", "p", "s">>)
        IN {rels.kv[i] : i \in DOMAIN rels.kv} =
            {sources[i] : i \in {j \in DOMAIN sources :
                \A later \in (j + 1)..Len(sources) : sources[later][1] # sources[j][1]}}

\* the operations that run a normalize_file
NormalizeOps == {"main", "maybe_refactor"} \cup RouteOps

\* C17: every entity a normalizer of the five categories produces has a name
\* that is a non-empty string, whatever the raw document holds
C17_NameNeverEmpty ==
    (call.op \in NormalizeOps /\ call.ran /\ ~Raised(call.entries)) =>
        \A i \in DOMAIN call.entries.l :
            /\ OGet(call.entries.l[i], <<"n", "a", "m", "e">>).t = "str"
            /\ OGet(call.entries.l[i], <<"n", "a", "m", "e">>).s # <<>>

\* the texts held anywhere in a value
RECURSIVE Texts(_)
Texts(v) ==
    CASE v.t = "str" -> {v.s}
      [] v.t = "list" -> UNION {Texts(v.l[i]) : i \in DOMAIN v.l}
      [] v.t = "odict" -> UNION {Texts(v.kv[i][2]) : i \in DOMAIN v.kv}
      [] OTHER -> {}

\* the texts of the canonical fields, notes and attributes of an entity
EntityTexts(entity) ==
    UNION {Texts(entity.kv[i][2]) :
            i \in {j \in DOMAIN entity.kv : entity.kv[j][1] \notin {<<"i", "d">>, <<"s", "o", "u", "r", "c", "e">>}}}

\* the labels the module's built-in synonyms give a text
Labels(module, text) ==
    LET table == DefaultSynonyms[module]
    IN {OGet(table.kv[i][2], lower(text)).s :
            i \in {j \in DOMAIN table.kv : OHas(table.kv[j][2], lower(text))}}

\* a text appears in the entity: as it is, letter case aside, inside a field,
\* a note or an attribute, or as the label the synonyms give it
Appears(module, text, entity) ==
    \E held \in EntityTexts(entity) :
        \/ Contains(lower(held), lower(text))
        \/ held \in Labels(module, text)

\* a scalar that is not empty once cleaned
NonEmptyScalar(v) == v.t \in {"str", "num", "bool"} /\ Truthy(clean_text(v))

\* the fields of the raw entry whose value is found nowhere in the entity
Lost(module) ==
    {RawEntry.kv[i][1] : i \in {j \in DOMAIN RawEntry.kv :
        /\ NonEmptyScalar(RawEntry.kv[j][2])
        /\ ~Appears(module, clean_text(RawEntry.kv[j][2]).s, Entity)}}

\* C18: no scalar field of a raw character, creature or realm entry is lost:
\* the value of every top-level key with a non-empty scalar value appears in
\* the canonical entity, in a canonical field or in notes or attributes, also
\* when the entry carries several alias keys of one canonical field
C18_NoScalarFieldLost ==
    \A module \in SynonymModules : OneEntry(module) => Lost(module) = {}

\* the raw entries of a document in one of the shapes every category is to
\* take: the collection key holding a list, a bare list, a single named object
ShapedEntries(module, data) ==
    LET objects(l) == SelectSeq(l, IsODict)
    IN IF IsODict(data) /\ OHas(data, module) /\ IsList(OGet(data, module))
       THEN objects(OGet(data, module).l)
       ELSE IF IsList(data) THEN objects(data.l)
       ELSE IF IsODict(data) /\ ~OHas(data, module) /\ Truthy(OGet(data, <<"n", "a", "m", "e">>))
       THEN <<data>>
       ELSE <<>>

\* the collection key of a category
ModuleKey(module) ==
    CASE module = "characters" -> <<"c", "h", "a", "r", "a", "c", "t", "e", "r", "s">>
      [] module = "creatures" -> <<"c", "r", "e", "a", "t", "u", "r", "e", "s">>
      [] module = "realms" -> <<"r", "e", "a", "l", "m", "s">>

\* C19: on a document that is well-formed JSON, normalize_file of a category
\* raises nothing and returns a list: one entity per raw entry when the
\* document is the collection key holding a list, a bare list or a single
\* object, and the empty list when the document is no object and no list
C19_WellFormedNeverRaises ==
    (call.op \in NormalizeOps /\ call.ran /\ call.input # Missing /\ call.input.ok) =>
        /\ ~Raised(call.entries)
        /\ IsList(call.entries)
        /\ call.module \in SynonymModules =>
                Len(call.entries.l) >= Len(ShapedEntries(ModuleKey(call.module), call.input.json))
        /\ ~IsODict(call.input.json) /\ ~IsList(call.input.json) => call.entries.l = <<>>

-----------------------------------------------------------------------------
(* The scheduler state machine: app.py's auto-sync thread in one process *)

\* loop cycles of the worker in one behaviour
MaxCycles == 2

InitSched ==
    /\ fs = [p \in {FileLy} |-> Json(Dict(BaseEntity(Ly, RawFile)))]
    /\ db \in {<<>>, <<StalePage(1, Ab, EmptyDict)>>}
    /\ mapping = FullMapping
    /\ hist = <<>>
    /\ env \in EnvSamples \cup {[EnvOk EXCEPT !.dbs = {}]}
    /\ IdleIndex
    /\ IdleBatch
    /\ IdleFormat
    /\ IdleSched
    /\ IdleOther

\* AUTO_PULL_ON_START, AUTO_PUBLISH_ON_START, AUTO_PULL_EACH_CYCLE,
\* AUTO_PUBLISH_EACH_CYCLE as _bool_env reads them
Configs ==
    [pull_on_start : BOOLEAN, publish_on_start : BOOLEAN,
     pull_each_cycle : BOOLEAN, publish_each_cycle : BOOLEAN]

\* a worker thread: the flags its closure holds, its position, the cycle it is
\* in (0: the run at start), the next category and the results of the batch
\* it is running, and the categories the cycle has gone through
Thread(config) ==
    [config |-> config, pc |-> "boot", cycle |-> 0, i |-> 1,
     results |-> EmptyDict, raised |-> FALSE, log |-> <<>>]

\* a second call that starts one more worker
StartSchedulerIfEnabled_Again ==
    /\ SchedulerEnabled
    /\ \E config \in Configs :
        sched' = [imported |-> TRUE, threads |-> Append(sched.threads, Thread(config))]
    /\ UNCHANGED <<env, syncVars, indexVars, others, batch, formatVars, otherVars>>

\* _start_scheduler_if_enabled(), called once when the module is imported
StartSchedulerIfEnabled ==
    /\ ~sched.imported
    /\ IF SchedulerEnabled
       THEN \E config \in Configs :
                sched' = [imported |-> TRUE, threads |-> <<Thread(config)>>]
       ELSE sched' = [imported |-> TRUE, threads |-> <<>>]
    /\ UNCHANGED <<env, syncVars, indexVars, others, batch, formatVars, otherVars>>

\* thread t moves on
Move(t, thread) == sched' = [sched EXCEPT !.threads[t] = thread]

\* worker: time.sleep(3) is over
WorkerBoot ==
    /\ \E t \in DOMAIN sched.threads :
        /\ sched.threads[t].pc = "boot"
        /\ Move(t, [sched.threads[t] EXCEPT !.pc = "refactor_creatures"])
    /\ UNCHANGED <<env, syncVars, indexVars, others, batch, formatVars, otherVars>>

\* creatures.json and mappings.json as the worker finds them
WorkerSources(module) ==
    {Missing} \cup
    CASE module = "creatures" -> RouteInputs("refactor-creatures") \ {BadJson}
      [] module = "magic" -> {Json(List(<<Obj(<< <<<<"n", "a", "m", "e">>, Str(<<" ">>)>> >>)>>))}
      [] module = "plots" ->
            {Json(Obj(<< <<<<"p", "l", "o", "t", "s">>, Obj(<< <<<<"W", "a", "r">>, Obj(<< <<<<"s", "u", "m", "m", "a", "r", "y">>, Str(<<"l", "o", "n", "g">>)>> >>)>> >>)>> >>))}

\* the files _maybe_refactor_creatures writes
AutoCreatureFiles(input, entries) ==
    SplitFiles(entries, <<"c", "r", "e", "a", "t", "u", "r", "e">>, TRUE)
        \o BundleFiles(build_region_bundles(entries))
        \o <<Written(<<<<"c", "r", "e", "a", "t", "u", "r", "e", "s", ".", "j", "s", "o", "n", ".", "b", "a", "k">>>>, input),
             Written(<<<<"c", "r", "e", "a", "t", "u", "r", "e", "s", ".", "j", "s", "o", "n">>>>,
                     Obj(<< <<<<"n", "o", "t", "e">>, Str(<<"D", "a", "t", "a", " ", "s", "p", "l", "i", "t", " ", "i", "n", "t", "o", " ", "l", "o", "r", "e", "/", "c", "r", "e", "a", "t", "u", "r", "e", "s", "/", "f", "o", "r", "m", "a", "t", "t", "e", "d", " ", "a", "n", "d", " ", "/", "f", "o", "r", "m", "a", "t", "t", "e", "d", "/", "r", "e", "g", "i", "o", "n", "s", " ", "f", "o", "r", " ", "b", "u", "n", "d", "l", "e", "s", ".">>)>>,
                            <<<<"t", "o", "t", "a", "l">>, Num(Len(entries))>> >>))>>

\* _maybe_refactor_creatures: enabled is AUTO_REFACTOR_CREATURES_ON_START
MaybeRefactorCreatures ==
    /\ \E t \in DOMAIN sched.threads :
        /\ sched.threads[t].pc = "refactor_creatures"
        /\ Move(t, [sched.threads[t] EXCEPT !.pc = "refactor_magic"])
    /\ \E enabled \in BOOLEAN, existing \in {0, 5}, input \in WorkerSources("creatures"),
          mappings \in {Missing, Json(MapB)} :
        IF enabled /\ existing < 5 /\ input # Missing
        THEN \E globals \in {set_synonyms(SYNONYMS,
                                load_synonyms(SYNONYMS.characters, mappings))} :
             \E entries \in {NormalizeCreatures(input, globals)} :
                /\ SYNONYMS' = globals
                /\ call' = [op |-> "maybe_refactor", module |-> "creatures",
                            input |-> input, ran |-> TRUE, entries |-> entries,
                            written |-> IF Raised(entries) THEN <<>>
                                        ELSE AutoCreatureFiles(input, entries.l)]
        ELSE /\ call' = [op |-> "maybe_refactor", module |-> "creatures",
                         input |-> input, ran |-> FALSE, entries |-> List(<<>>),
                         written |-> <<>>]
             /\ UNCHANGED SYNONYMS
    /\ UNCHANGED <<env, syncVars, indexVars, others, batch, otherVars>>

\* _maybe_refactor_magic and _maybe_refactor_plots as the worker calls them
WorkerRefactor(module, pc, next, normalize(_, _)) ==
    /\ \E t \in DOMAIN sched.threads :
        /\ sched.threads[t].pc = pc
        /\ Move(t, [sched.threads[t] EXCEPT !.pc = next])
    /\ \E existing \in {0, RefactorThreshold(module)}, input \in WorkerSources(module) :
        call' = RefactorCall(module, existing, input, SYNONYMS, normalize)
    /\ UNCHANGED <<SYNONYMS, env, syncVars, indexVars, others, batch, otherVars>>

WorkerRefactorMagic ==
    WorkerRefactor("magic", "refactor_magic", "refactor_plots", NormalizeMagic)
WorkerRefactorPlots == WorkerRefactor("plots", "refactor_plots", "pull", NormalizePlots)

\* whether the cycle the thread is in pulls, and whether it publishes
Pulls(thread) ==
    IF thread.cycle = 0 THEN thread.config.pull_on_start ELSE thread.config.pull_each_cycle
Publishes(thread) ==
    IF thread.cycle = 0 THEN thread.config.publish_on_start
    ELSE thread.config.publish_each_cycle

\* one category of _do_pull_all_internal or _do_publish_all_internal in thread
\* t, or the return of the function: after the last category, after an
\* exception, or at once when the cycle does not run it
WorkerBatch(t, pc, kind, runs, next) ==
    LET thread == sched.threads[t]
    IN /\ thread.pc = pc
       /\ IF ~runs \/ thread.raised \/ thread.i > Len(BatchOrder)
          THEN /\ Move(t, [thread EXCEPT !.pc = next, !.i = 1,
                                         !.results = EmptyDict, !.raised = FALSE])
               /\ UNCHANGED <<fs, db, others>>
          ELSE \E st \in {BatchStep([fs |-> fs, db |-> db, others |-> others,
                                     results |-> thread.results, raised |-> FALSE],
                                    BatchOrder[thread.i], kind, env, mapping, TRUE)} :
                /\ fs' = st.fs
                /\ db' = st.db
                /\ others' = st.others
                /\ Move(t, [thread EXCEPT !.i = @ + 1, !.results = st.results,
                                          !.raised = st.raised,
                                          !.log = Append(@, [kind |-> kind,
                                                             category |-> BatchOrder[thread.i]])])

\* worker: _do_pull_all_internal()
WorkerPull ==
    /\ \E t \in DOMAIN sched.threads :
        WorkerBatch(t, "pull", "pull", Pulls(sched.threads[t]), "publish")
    /\ UNCHANGED <<mapping, hist, env, indexVars, batch, formatVars, otherVars>>

\* worker: _do_publish_all_internal()
WorkerPublish ==
    /\ \E t \in DOMAIN sched.threads :
        WorkerBatch(t, "publish", "push", Publishes(sched.threads[t]), "sleep")
    /\ UNCHANGED <<mapping, hist, env, indexVars, batch, formatVars, otherVars>>

\* worker: time.sleep(interval_minutes * 60) is over and the next cycle begins
WorkerSleep ==
    /\ \E t \in DOMAIN sched.threads :
        /\ sched.threads[t].pc = "sleep"
        /\ sched.threads[t].cycle < MaxCycles
        /\ Move(t, [sched.threads[t] EXCEPT !.pc = "pull", !.cycle = @ + 1, !.log = <<>>])
    /\ UNCHANGED <<env, syncVars, indexVars, others, batch, formatVars, otherVars>>

NextSched ==
    \/ StartSchedulerIfEnabled
    \/ WorkerBoot
    \/ MaybeRefactorCreatures
    \/ WorkerRefactorMagic
    \/ WorkerRefactorPlots
    \/ WorkerPull
    \/ WorkerPublish
    \/ WorkerSleep

SpecSched == InitSched /\ [][NextSched]_vars

\* the positions of a thread inside a cycle
InCycle(thread) == thread.pc \in {"pull", "publish"}

\* the steps of a whole cycle in the order one run takes them: every category
\* pulled, then every category published
CycleOrder ==
    [i \in 1..Len(BatchOrder) |-> [kind |-> "pull", category |-> BatchOrder[i]]]
        \o [i \in 1..Len(BatchOrder) |-> [kind |-> "push", category |-> BatchOrder[i]]]

\* where a step stands in CycleOrder
Place(step) == CHOOSE i \in DOMAIN CycleOrder : CycleOrder[i] = step

-----------------------------------------------------------------------------
(* Region and realm of a creature                                           *)

\* format_creatures has normalized a document holding one group of one creature
GroupedOne ==
    /\ call.op = "main"
    /\ call.module = "creatures"
    /\ call.input # Missing /\ call.input.ok
    /\ IsODict(call.input.json)
    /\ IsODict(OGet(call.input.json, <<"c", "r", "e", "a", "t", "u", "r", "e", "s">>))
    /\ Len(OGet(call.input.json, <<"c", "r", "e", "a", "t", "u", "r", "e", "s">>).kv) = 1
    /\ IsODict(OGet(call.input.json, <<"c", "r", "e", "a", "t", "u", "r", "e", "s">>).kv[1][2])
    /\ Len(OGet(call.input.json, <<"c", "r", "e", "a", "t", "u", "r", "e", "s">>).kv[1][2].kv) = 1
    /\ IsODict(OGet(call.input.json, <<"c", "r", "e", "a", "t", "u", "r", "e", "s">>).kv[1][2].kv[1][2])
    /\ ~Raised(call.entries)

\* one raw creature has been normalized into one entity
OneCreature == OneEntry("creatures") \/ GroupedOne

\* the raw body of that creature
CreatureBody ==
    IF IsList(call.input.json) THEN RawEntry
    ELSE OGet(call.input.json, <<"c", "r", "e", "a", "t", "u", "r", "e", "s">>).kv[1][2].kv[1][2]

\* the positions of the keys of a section of the creature table that occur in
\* the lowercased text
Hits(section, text) ==
    LET table == Section(CreatureSynonyms, section)
    IN {i \in DOMAIN table.kv : Contains(lower(text), table.kv[i][1])}

\* the value of the first of those keys, in table order
FirstHit(section, text) ==
    LET table == Section(CreatureSynonyms, section)
    IN table.kv[CHOOSE i \in Hits(section, text) :
                    \A j \in Hits(section, text) : i <= j][2]

\* the group label of the provenance as a region: the label without the
\* whitespace around it, and none when the label is blank or absent
GroupLabel(entity) ==
    LET group == OGet(OGet(entity, <<"s", "o", "u", "r", "c", "e">>), <<"g", "r", "o", "u", "p">>)
    IN IF IsStr(group) /\ StripWs(group.s) # <<>> THEN Str(StripWs(group.s)) ELSE Null

\* C21: the region of a creature is the value of the first key of the region
\* table, in table order, that occurs in the lowercased location, and the
\* group label of its provenance when no key occurs; its realm is the label of
\* the explicit realm field when there is one, else the value of the first
\* key of the realm table that occurs in the location, else of the first that
\* occurs in the region
C21_RegionAndRealmDerivation ==
    OneCreature =>
        LET location == OGet(Entity, <<"l", "o", "c", "a", "t", "i", "o", "n">>)
            region == OGet(Entity, <<"r", "e", "g", "i", "o", "n">>)
            explicit == clean_text(OGet(CreatureBody, <<"r", "e", "a", "l", "m">>))
        IN /\ region =
                IF Truthy(location) /\ Hits(<<"r", "e", "g", "i", "o", "n">>, location.s) # {}
                THEN FirstHit(<<"r", "e", "g", "i", "o", "n">>, location.s)
                ELSE GroupLabel(Entity)
           /\ OGet(Entity, <<"r", "e", "a", "l", "m">>) =
                IF Truthy(explicit)
                THEN canonicalize_with_synonyms(explicit.s, Section(CreatureSynonyms, <<"r", "e", "a", "l", "m">>), TRUE)
                ELSE IF Truthy(location) /\ Hits(<<"r", "e", "a", "l", "m">>, location.s) # {}
                THEN FirstHit(<<"r", "e", "a", "l", "m">>, location.s)
                ELSE IF Truthy(region) /\ Hits(<<"r", "e", "a", "l", "m">>, region.s) # {}
                THEN FirstHit(<<"r", "e", "a", "l", "m">>, region.s)
                ELSE Null

\* a creature whose location names two regions and two realms, the second of
\* the table first in the text
C21_Witness ==
    /\ GroupedOne
    /\ Truthy(OGet(Entity, <<"l", "o", "c", "a", "t", "i", "o", "n">>))
    /\ Cardinality(Hits(<<"r", "e", "g", "i", "o", "n">>, OGet(Entity, <<"l", "o", "c", "a", "t", "i", "o", "n">>).s)) = 2
    /\ Cardinality(Hits(<<"r", "e", "a", "l", "m">>, OGet(Entity, <<"l", "o", "c", "a", "t", "i", "o", "n">>).s)) = 2
    /\ OGet(Entity, <<"r", "e", "g", "i", "o", "n">>) = Str(<<"A", "b", "y", "s", "s">>)
    /\ OGet(Entity, <<"r", "e", "a", "l", "m">>) = Str(<<"E", "l", "a", "r", "i", "o", "n">>)

\* a creature without a place whose region is its group and whose realm is
\* found in that group
C21_WitnessGroup ==
    /\ GroupedOne
    /\ ~Truthy(OGet(CreatureBody, <<"r", "e", "a", "l", "m">>))
    /\ OGet(Entity, <<"r", "e", "g", "i", "o", "n">>) = Str(<<"E", "l", "a", "r", "i", "o", "n", " ", "W", "i", "l", "d", "s">>)
    /\ OGet(Entity, <<"r", "e", "a", "l", "m">>) = Str(<<"E", "l", "a", "r", "i", "o", "n">>)

-----------------------------------------------------------------------------
(* scripts/notion_sync.py: ensure_schema, and the schema state machine     *)

\* a property definition of the remote database
PropDef(type, options) == [type |-> type, options |-> options]

\* _property_stub(prop_type): the empty definition a missing property is
\* created with; an unknown type gives rich_text
property_stub(prop_type) ==
    IF prop_type \in {"title", "rich_text", "select", "multi_select", "number", "checkbox"}
    THEN PropDef(prop_type, <<>>)
    ELSE PropDef("rich_text", <<>>)

\* the properties with one of them under a new name
Renamed(props, old, new) ==
    [n \in (DOMAIN props \ {old}) \cup {new} |-> IF n = new THEN props[old] ELSE props[n]]

\* the name of the title property of the database, None when it has none
TitleName(props) ==
    IF \E n \in DOMAIN props : props[n].type = "title"
    THEN CHOOSE n \in DOMAIN props : props[n].type = "title"
    ELSE "None"

\* ensure_schema(category) on a database with the given properties: renameOk and
\* updateOk say whether the remote accepts the rename of the title property
\* and the update that adds properties; gives the properties the remote has
\* afterwards and the result returned
ensure_schema(props, mp, renameOk, updateOk) ==
    LET title_prop_name == TitleName(props)
        title_renamed == title_prop_name \notin {"None", "Name"} /\ renameOk
        current_props == IF title_renamed THEN Renamed(props, title_prop_name, "Name")
                         ELSE props
        skip(row) == \/ row.prop \in DOMAIN current_props
                     \/ row.type = "title" /\ title_prop_name # "None"
        to_add == SelectSeq(mp, LAMBDA row : ~skip(row))
        names(rows) == [i \in DOMAIN rows |-> rows[i].prop]
        added == [n \in (DOMAIN current_props) \cup Range(names(to_add)) |->
                    IF n \in DOMAIN current_props THEN current_props[n]
                    ELSE property_stub(
                            to_add[CHOOSE i \in DOMAIN to_add : to_add[i].prop = n].type)]
    IN IF to_add # <<>> /\ ~updateOk
       THEN [props |-> current_props,
             result |-> [updated |-> FALSE, title_renamed |-> title_renamed,
                         added_properties |-> <<>>, attempted |-> names(to_add),
                         existing_unchanged |-> <<>>, property_count |-> 0]]
       ELSE [props |-> added,
             result |-> [updated |-> TRUE, title_renamed |-> title_renamed,
                         added_properties |-> names(to_add), attempted |-> <<>>,
                         existing_unchanged |-> names(SelectSeq(mp, skip)),
                         property_count |-> Cardinality(DOMAIN added)]]

\* remote databases: the title property under its name or another one, mapped
\* properties present with the mapped or another type, an unmapped property
SchemaSamples ==
    {[n \in {"Name"} |-> PropDef("title", <<>>)],
     [n \in {"Title"} |-> PropDef("title", <<>>)],
     [n \in {"Title", "Court", "Age"} |->
        CASE n = "Title" -> PropDef("title", <<>>)
          [] n = "Court" -> PropDef("rich_text", <<>>)
          [] n = "Age" -> PropDef("number", <<>>)],
     [n \in {"Name", "Court", "Extra"} |->
        CASE n = "Name" -> PropDef("title", <<>>)
          [] n = "Court" -> PropDef("select", <<"Seelie", "Unseelie">>)
          [] n = "Extra" -> PropDef("checkbox", <<>>)],
     [n \in {FullMapping[i].prop : i \in DOMAIN FullMapping} |->
        PropDef(FullMapping[CHOOSE i \in DOMAIN FullMapping : FullMapping[i].prop = n].type,
                <<>>)]}

InitSchema ==
    /\ schema \in {[props |-> props, runs |-> <<>>] : props \in SchemaSamples}
    /\ mapping \in MappingSamples
    /\ env \in EnvSamples
    /\ fs = [p \in {FileLy} |-> Json(Dict(BaseEntity(Ly, RawFile)))]
    /\ db = <<>>
    /\ hist = <<>>
    /\ IdleIndex
    /\ IdleBatch
    /\ IdleFormat
    /\ IdleSched
    /\ IdlePager
    /\ IdleRace
    /\ IdleDisk

\* a request to ensure the schema of the category's database: a failed
\* precondition raises before the remote is read
EnsureSchema ==
    /\ Len(schema.runs) < MaxOps
    /\ \E renameOk \in BOOLEAN, updateOk \in BOOLEAN :
        \E r \in {ensure_schema(schema.props, mapping, renameOk, updateOk)} :
            LET pre == SyncPrecondition(env, Category)
                ran == pre = ""
            IN schema' = [props |-> IF ran THEN r.props ELSE schema.props,
                          runs |-> Append(schema.runs,
                                    [error |-> pre,
                                     renameOk |-> ran /\ renameOk,
                                     updateOk |-> ran /\ updateOk,
                                     before |-> schema.props,
                                     after |-> IF ran THEN r.props ELSE schema.props,
                                     result |-> IF ran THEN r.result
                                                ELSE [updated |-> FALSE,
                                                      title_renamed |-> FALSE,
                                                      added_properties |-> <<>>,
                                                      attempted |-> <<>>,
                                                      existing_unchanged |-> <<>>,
                                                      property_count |-> 0]])]
    /\ UNCHANGED <<fs, db, mapping, env, hist, indexVars, others, batch, formatVars, sched,
                   pager, race, disk>>

NextSchema == EnsureSchema

SpecSchema == InitSchema /\ [][NextSchema]_vars

\* the properties the mapping names
Mapped == {mapping[i].prop : i \in DOMAIN mapping}

\* the ensures that ran to their end and reported an update
Ensured == {i \in DOMAIN schema.runs :
                schema.runs[i].error = "" /\ schema.runs[i].result.updated}

\* the properties a run found, with the title property under the name the run
\* gave it
Found(run) ==
    IF run.result.title_renamed THEN Renamed(run.before, TitleName(run.before), "Name")
    ELSE run.before

\* C22: an ensure adds to the remote database exactly the mapped properties
\* that are absent from it and changes no property that is present, whatever
\* its type; a failing rename of the title property is swallowed; an ensure
\* right after a successful one adds nothing
C22_EnsureAddsExactlyTheAbsent ==
    /\ \A i \in Ensured :
        LET run == schema.runs[i]
        IN /\ DOMAIN run.after \ DOMAIN Found(run) = Mapped \ DOMAIN Found(run)
           /\ \A n \in DOMAIN Found(run) :
                n \in DOMAIN run.after /\ run.after[n] = Found(run)[n]
    /\ \A i \in DOMAIN schema.runs :
        LET run == schema.runs[i]
        IN (run.error = "" /\ ~run.renameOk) =>
                /\ ~run.result.title_renamed
                /\ TitleName(run.after) = TitleName(run.before)
    /\ \A i \in Ensured :
        (i + 1) \in DOMAIN schema.runs =>
            DOMAIN schema.runs[i + 1].after \subseteq DOMAIN Found(schema.runs[i + 1])

-----------------------------------------------------------------------------
(* scripts/notion_sync.py: pull_from_notion statement by statement, against *)
(* a remote that answers each query with one page of its chain              *)

\* pages in a remote's chain
MaxPages == 2

\* queries after which a pull that is still reading is left alone
MaxQueries == MaxPages + 2

\* the i-th record of the remote
Record(i) == StalePage(i, IF i % 2 = 1 THEN Ab ELSE Ly, EmptyDict)

\* the k-th page of a chain: size records, the has-more flag, the next cursor
\* (0: none)
ChainPage(k, shape) ==
    [results |-> [j \in 1..shape.size |-> Record(RemotePageSize * (k - 1) + j)],
     has_more |-> shape.has_more,
     next_cursor |-> shape.next_cursor]

\* the chains of up to MaxPages pages: every page holds up to RemotePageSize
\* records and points at a page of the chain, at itself or at nothing
Chains ==
    UNION {{[k \in 1..n |-> ChainPage(k, shapes[k])] :
                shapes \in [1..n -> [size : 0..RemotePageSize, has_more : BOOLEAN,
                                     next_cursor : 0..n]]} :
            n \in 1..MaxPages}

\* notion.databases.query(database_id=db_id, start_cursor=start_cursor): the
\* first page when the cursor is None
QueryChain(chain, start_cursor) == chain[IF start_cursor = 0 THEN 1 ELSE start_cursor]

\* a pull is about to be called; tick flips with every statement the pull
\* runs
InitPaging ==
    /\ pager = [pc |-> "call", chain |-> <<>>, failAt |-> 0, start_cursor |-> 0,
                queried |-> <<>>, results |-> <<>>, i |-> 1, written |-> 0, log |-> <<>>,
                result |-> EmptyDict, tick |-> FALSE]
    /\ fs = [p \in {FileLy} |-> Json(Dict(BaseEntity(Ly, RawFile)))]
    /\ db = <<>>
    /\ mapping = FullMapping
    /\ hist = <<>>
    /\ env = EnvOk
    /\ IdleIndex
    /\ IdleBatch
    /\ IdleFormat
    /\ IdleSched
    /\ IdleSchema
    /\ IdleRace
    /\ IdleDisk

\* the pull is called: results = [], start_cursor = None; the remote holds one
\* of the chains, and failAt picks the record whose save_json raises (0: none)
PullEnter ==
    /\ pager.pc = "call"
    /\ \E chain \in Chains, failAt \in 0..1 :
        pager' = [pager EXCEPT !.tick = ~@, !.pc = "query", !.chain = chain, !.failAt = failAt]
    /\ UNCHANGED <<fs, db, mapping, env, hist, indexVars, others, batch, formatVars, sched,
                   schema, race, disk>>

\* a variant of the loop that stops at the first page without records
PullQuery_StopOnEmptyPage ==
    /\ pager.pc = "query"
    /\ Len(pager.queried) < MaxQueries
    /\ LET page == QueryChain(pager.chain, pager.start_cursor)
       IN pager' = [pager EXCEPT
                        !.tick = ~@,
                        !.queried = Append(@, IF pager.start_cursor = 0 THEN 1
                                              ELSE pager.start_cursor),
                        !.results = @ \o page.results,
                        !.pc = IF page.results = <<>> THEN "process" ELSE "query",
                        !.start_cursor = IF page.results = <<>> THEN @ ELSE page.next_cursor]
    /\ UNCHANGED <<fs, db, mapping, env, hist, indexVars, others, batch, formatVars, sched,
                   schema, race, disk>>

\* one turn of the while loop: a page is requested and its records are kept;
\* without the has-more flag the loop ends, else the next cursor is taken
PullQuery ==
    /\ pager.pc = "query"
    /\ Len(pager.queried) < MaxQueries
    /\ LET page == QueryChain(pager.chain, pager.start_cursor)
       IN pager' = [pager EXCEPT
                        !.tick = ~@,
                        !.queried = Append(@, IF pager.start_cursor = 0 THEN 1
                                              ELSE pager.start_cursor),
                        !.results = @ \o page.results,
                        !.pc = IF ~page.has_more THEN "process" ELSE "query",
                        !.start_cursor = IF ~page.has_more THEN @ ELSE page.next_cursor]
    /\ UNCHANGED <<fs, db, mapping, env, hist, indexVars, others, batch, formatVars, sched,
                   schema, race, disk>>

\* a query raises: the exception leaves pull_from_notion
PullQueryRaises ==
    /\ pager.pc = "query"
    /\ Len(pager.queried) < MaxQueries
    /\ pager' = [pager EXCEPT !.tick = ~@, !.pc = "raised"]
    /\ UNCHANGED <<fs, db, mapping, env, hist, indexVars, others, batch, formatVars, sched,
                   schema, race, disk>>

\* one turn of the for loop over the records
PullRecord ==
    /\ pager.pc = "process"
    /\ pager.i <= Len(pager.results)
    /\ \E st \in {PullOne([files |-> fs, written |-> pager.written, log |-> pager.log],
                          pager.results[pager.i], mapping, Category,
                          pager.i = pager.failAt)} :
        /\ fs' = st.files
        /\ pager' = [pager EXCEPT !.tick = ~@, !.i = @ + 1, !.written = st.written, !.log = st.log]
    /\ UNCHANGED <<db, mapping, env, hist, indexVars, others, batch, formatVars, sched,
                   schema, race, disk>>

\* return {"written": written, "pages": len(results)}
PullReturn ==
    /\ pager.pc = "process"
    /\ pager.i > Len(pager.results)
    /\ pager' = [pager EXCEPT !.tick = ~@, !.pc = "done",
                              !.result = [written |-> pager.written,
                                          pages |-> Len(pager.results)]]
    /\ UNCHANGED <<fs, db, mapping, env, hist, indexVars, others, batch, formatVars, sched,
                   schema, race, disk>>

NextPaging == PullEnter \/ PullQuery \/ PullQueryRaises \/ PullRecord \/ PullReturn

SpecPaging == InitPaging /\ [][NextPaging]_vars

\* the page the remote answers the n-th query of a pull with
RECURSIVE Visit(_, _)
Visit(chain, n) ==
    IF n = 1 THEN 1
    ELSE LET cursor == chain[Visit(chain, n - 1)].next_cursor
         IN IF cursor = 0 THEN 1 ELSE cursor

\* the chain of pages is finite: following the cursors from the first page
\* leads to a page without the has-more flag
FiniteChain(chain) ==
    \E n \in 1..Len(chain) :
        /\ ~chain[Visit(chain, n)].has_more
        /\ \A m \in 1..(n - 1) : chain[Visit(chain, m)].has_more

\* what the pull has read so far is the remote's chain from its first page,
\* every page but the last with the has-more flag, and the pull goes on to the
\* records exactly when the last page read is without it
ReadsAlongChain ==
    pager.pc \notin {"idle", "call"} =>
        /\ \A n \in DOMAIN pager.queried :
            /\ pager.queried[n] = Visit(pager.chain, n)
            /\ n < Len(pager.queried) => pager.chain[pager.queried[n]].has_more
        /\ pager.results =
            Concat([n \in DOMAIN pager.queried |-> pager.chain[pager.queried[n]].results])
        /\ pager.pc \in {"process", "done"} =>
            /\ pager.queried # <<>>
            /\ ~pager.chain[pager.queried[Len(pager.queried)]].has_more
        /\ (pager.pc = "query" /\ pager.queried # <<>>) =>
            pager.chain[pager.queried[Len(pager.queried)]].has_more

\* the records are handled one by one in the order read, each once, and the
\* pages count returned is their number
EachRecordOnce ==
    /\ pager.pc \in {"process", "done"} =>
        /\ Len(pager.log) = pager.i - 1
        /\ \A k \in DOMAIN pager.log : pager.log[k].page = pager.results[k].id
    /\ pager.pc = "done" =>
        /\ Len(pager.log) = Len(pager.results)
        /\ pager.result.pages = Len(pager.results)
        /\ pager.result.written =
            Cardinality({k \in DOMAIN pager.log : pager.log[k].outcome = "written"})

\* the pull has a statement to run; a pull still reading after MaxQueries
\* queries is followed no further
Running ==
    \/ pager.pc \in {"call", "process"}
    \/ pager.pc = "query" /\ Len(pager.queried) < MaxQueries

\* the pull is a running thread: while it has a statement to run, it runs one
KeepsRunning ==
    /\ [](( Running /\ pager.tick) => <>(~pager.tick))
    /\ [](( Running /\ ~pager.tick) => <>(pager.tick))

\* C23: pull reads the remote result set to its end: it asks for the next
\* page while the has-more flag is set and stops at the first page without
\* it, handles each record of every page exactly once, reports the number of
\* records as pages, and, as long as it keeps running, ends whenever the
\* remote's chain of pages is finite
C23_PullReadsToTheEnd ==
    /\ [](ReadsAlongChain /\ EachRecordOnce)
    /\ KeepsRunning =>
        ((pager.pc = "query" /\ FiniteChain(pager.chain)) ~>
            (pager.pc \in {"done", "raised"}))

\* a pull has returned after two pages, the first of them without records
C23_Witness ==
    /\ pager.pc = "done"
    /\ Len(pager.queried) = 2
    /\ pager.chain[pager.queried[1]].results = <<>>
    /\ pager.result.pages = 2
    /\ pager.result.written = 1

-----------------------------------------------------------------------------
(* app.py: the normalization routes writing into lore/<category>/formatted, *)
(* and the index generated from what they wrote                             *)

\* a key or a name as one text
RECURSIVE Text(_)
Text(chars) == IF chars = <<>> THEN "" ELSE chars[1] \o Text(Tail(chars))

\* json.load of what save_json wrote: objects by key, lists item by item
RECURSIVE LoadedDoc(_)
LoadedDoc(v) ==
    IF IsODict(v)
    THEN Dict([k \in {Text(v.kv[i][1]) : i \in DOMAIN v.kv} |->
                LoadedDoc(v.kv[CHOOSE i \in DOMAIN v.kv : Text(v.kv[i][1]) = k][2])])
    ELSE IF IsList(v) THEN List([i \in DOMAIN v.l |-> LoadedDoc(v.l[i])])
    ELSE v

\* a category directory with its formatted directory: the files of formatted
\* itself by stem, the files one directory below by <<directory, stem>>
StoreDir ==
    [hasFormatted |-> FALSE, formatted |-> EmptyDict, hasRaw |-> TRUE, raw |-> EmptyDict,
     nested |-> EmptyDict]

\* path.stem of a file name ending in .json
StemOf(file) == SubSeq(file, 1, Len(file) - 5)

\* save_json_util of each written file in turn, below the directory l
StoreWritten(l, written) ==
    LET top == {i \in DOMAIN written : Len(written[i].path) = 1}
        deep == {i \in DOMAIN written : Len(written[i].path) = 2}
        topKey(i) == StemOf(written[i].path[1])
        deepKey(i) == <<written[i].path[1], StemOf(written[i].path[2])>>
        lastTop(st) == CHOOSE i \in top : topKey(i) = st /\ \A j \in top : topKey(j) = st => j <= i
        lastDeep(p) == CHOOSE i \in deep : deepKey(i) = p /\ \A j \in deep : deepKey(j) = p => j <= i
    IN [l EXCEPT
            !.hasFormatted = TRUE,
            !.formatted = [st \in DOMAIN @ \cup {topKey(i) : i \in top} |->
                            IF \E i \in top : topKey(i) = st
                            THEN Json(LoadedDoc(written[lastTop(st)].data))
                            ELSE @[st]],
            !.nested = [p \in DOMAIN @ \cup {deepKey(i) : i \in deep} |->
                            IF \E i \in deep : deepKey(i) = p
                            THEN Json(LoadedDoc(written[lastDeep(p)].data))
                            ELSE @[p]]]

\* the files normalize-creatures writes with the by_region and region_bundles
\* options of the request
CreatureRouteFiles(entries, by_region, region_bundles) ==
    Append(SplitFiles(entries, <<"c", "r", "e", "a", "t", "u", "r", "e">>, by_region),
           Written(<<<<"_", "i", "n", "d", "e", "x", ".", "j", "s", "o", "n">>>>, build_creatures_index(entries)))
        \o (IF region_bundles THEN BundleFiles(build_region_bundles(entries)) ELSE <<>>)

\* a request to a normalization route that names its input; the files go to
\* the formatted directory of the category
StoreRoute(route, normalize(_, _)) ==
    /\ Serving
    /\ \E input \in RouteInputs(route), by_region \in BOOLEAN, region_bundles \in BOOLEAN :
        /\ route # "normalize-creatures" => (~by_region /\ ~region_bundles)
        /\ \E r \in {NormalizeRoute(route, SYNONYMS, Missing, input, normalize)} :
            LET written == IF r.status = 200 /\ route = "normalize-creatures"
                           THEN CreatureRouteFiles(r.entries.l, by_region, region_bundles)
                           ELSE r.written
            IN /\ SYNONYMS' = r.globals
               /\ call' = [op |-> route, module |-> ModuleOf(route), mappings |-> Missing,
                           input |-> input, before |-> SYNONYMS, ran |-> r.loaded,
                           set |-> r.globals.characters,
                           used |-> r.globals[ModuleOf(route)],
                           status |-> r.status, entries |-> r.entries,
                           written |-> written]
               /\ lore' = IF r.status = 200
                          THEN [lore EXCEPT ![ModuleOf(route)] = StoreWritten(@, written)]
                          ELSE lore
    /\ UNCHANGED <<indexes, master, sched, env, syncVars, others, batch, otherVars>>

StoreCharacters == StoreRoute("normalize-characters", NormalizeCharacters)
StoreCreatures == StoreRoute("normalize-creatures", NormalizeCreatures)
StoreRealms == StoreRoute("normalize-realms", NormalizeRealms)

\* the category directories exist and nothing has been normalized yet
InitStore ==
    /\ lore = [c \in AllCategories |-> StoreDir]
    /\ indexes = EmptyDict
    /\ master = EmptyDict
    /\ env = EnvOk
    /\ IdleSync
    /\ IdleBatch
    /\ IdleFormat
    /\ IdleSched
    /\ IdleOther

NextStore == StoreCharacters \/ StoreCreatures \/ StoreRealms \/ GenerateMasterIndex

SpecStore == InitStore /\ [][NextStore]_vars

\* the canonical entities stored for a category: the documents of its
\* formatted directory and of the region directories below it, _index.json and
\* the bundles of regions/ apart
StoredEntities(c) ==
    {lore[c].formatted[st].json : st \in DOMAIN lore[c].formatted \ {<<"_", "i", "n", "d", "e", "x">>}}
        \cup {lore[c].nested[p].json : p \in {q \in DOMAIN lore[c].nested : q[1] # <<"r", "e", "g", "i", "o", "n", "s">>}}

\* the index files are those of a generate_master_index run on the lore as it is
IndexedAfterNormalize ==
    /\ DOMAIN indexes # {}
    /\ indexes = generate_master_index(lore).indexes

\* C24: once a category has been normalized into its formatted directory and
\* generate_master_index has run, the index of the category holds exactly one
\* entry for each canonical entity stored for it, and entry_count in the
\* master index is their number
C24_IndexHoldsEveryStoredEntity ==
    IndexedAfterNormalize =>
        \A c \in {x \in AllCategories : lore[x].hasFormatted} :
            /\ Len(indexes[c]) = Cardinality(StoredEntities(c))
            /\ \A e \in StoredEntities(c) :
                Cardinality({k \in DOMAIN indexes[c] :
                                indexes[c][k].name = DictGet(e.d, "name")}) = 1
            /\ master.categories[c].entry_count = Cardinality(StoredEntities(c))

\* the same, for categories whose entity files all lie in the formatted
\* directory itself
IndexHoldsEveryFlatEntity ==
    IndexedAfterNormalize =>
        \A c \in {x \in AllCategories : lore[x].hasFormatted /\ DOMAIN lore[x].nested = {}} :
            /\ Len(indexes[c]) = Cardinality(StoredEntities(c))
            /\ \A e \in StoredEntities(c) :
                Cardinality({k \in DOMAIN indexes[c] :
                                indexes[c][k].name = DictGet(e.d, "name")}) = 1
            /\ master.categories[c].entry_count = Cardinality(StoredEntities(c))

-----------------------------------------------------------------------------
(* The id of an entity: the normalizers of scripts/format_*.py and the      *)
(* skeleton pull_from_notion creates for a name without a file              *)

\* characters of the sample names, and the longest name
IdChars == {"A", "b", "-", "_", " ", "."}
MaxNameLen == 3

IdNames == UNION {[1..n -> IdChars] : n \in 1..MaxNameLen}

\* the remote holds one record of some name and no file exists yet
InitId ==
    /\ \E n \in IdNames : db = <<StalePage(1, n, EmptyDict)>>
    /\ fs = EmptyDict
    /\ mapping = FullMapping
    /\ hist = <<>>
    /\ env = EnvOk
    /\ IdleIndex
    /\ IdleBatch
    /\ IdleFormat
    /\ IdleSched
    /\ IdleOther

\* a normalizer is given the raw entry of the name the remote holds
NormalizeNamed ==
    /\ \E n \in IdNames, module \in {"characters", "creatures", "realms"} :
        /\ db[1] = StalePage(1, n, EmptyDict)
        /\ call' = [op |-> "normalize", module |-> module, name |-> n,
                    entity |->
                        CASE module = "characters" ->
                                normalize_character(ODict(<< <<<<"n", "a", "m", "e">>, Str(n)>> >>),
                                                    Context(DefaultInput(module), <<"c", "h", "a", "r", "a", "c", "t", "e", "r", "s">>, Null),
                                                    SYNONYMS.characters)
                          [] module = "creatures" ->
                                normalize_creature(Str(n), EmptyODict,
                                                   Context(DefaultInput(module), <<"c", "r", "e", "a", "t", "u", "r", "e", "s">>, Null),
                                                   SYNONYMS.creatures)
                          [] module = "realms" ->
                                normalize_realm(ODict(<< <<<<"n", "a", "m", "e">>, Str(n)>> >>),
                                                Context(DefaultInput(module), <<"r", "e", "a", "l", "m", "s">>, Null),
                                                SYNONYMS.realms)]
    /\ UNCHANGED <<SYNONYMS, sched, env, syncVars, indexVars, others, batch, otherVars>>

NextId == NormalizeNamed \/ PullFromNotion

SpecId == InitId /\ [][NextId]_vars

\* a name lowercased, each maximal run of characters that are neither letters
\* nor digits replaced by one underscore
RECURSIVE CollapsedRuns(_, _)
CollapsedRuns(s, inRun) ==
    IF s = <<>> THEN <<>>
    ELSE IF IsAlnum(s[1]) THEN <<LowerOf(s[1])>> \o CollapsedRuns(Tail(s), FALSE)
    ELSE (IF inRun THEN <<>> ELSE <<"_">>) \o CollapsedRuns(Tail(s), TRUE)

\* the entities pull has created
Skeletons == {fs[p].json.d : p \in DOMAIN fs}

\* the id a normalizer gives the name
NormalizerId(name) ==
    OGet(normalize_character(ODict(<< <<<<"n", "a", "m", "e">>, name>> >>),
                             Context(DefaultInput("characters"), <<"c", "h", "a", "r", "a", "c", "t", "e", "r", "s">>, Null),
                             SYNONYMS.characters), <<"i", "d">>)

\* C25: the id of an entity is its name lowercased with each maximal run of
\* non-alphanumeric characters replaced by one underscore, and the skeleton
\* pull creates for an unknown name has the id a normalizer gives that name
C25_IdIsAFunctionOfTheName ==
    /\ call.op = "normalize" =>
        OGet(call.entity, <<"i", "d">>) = Str(CollapsedRuns(OGet(call.entity, <<"n", "a", "m", "e">>).s, FALSE))
    /\ \A e \in Skeletons : e["id"] = NormalizerId(e["name"])

\* a name of letters and digits in words one space apart
PlainName(s) ==
    /\ s # <<>>
    /\ IsAlnum(s[1]) /\ IsAlnum(s[Len(s)])
    /\ \A i \in DOMAIN s : IsAlnum(s[i]) \/ (s[i] = " " /\ IsAlnum(s[i + 1]))

\* the same, for plain names
IdOfPlainNames ==
    /\ (call.op = "normalize" /\ PlainName(call.name)) =>
        OGet(call.entity, <<"i", "d">>) = Str(CollapsedRuns(OGet(call.entity, <<"n", "a", "m", "e">>).s, FALSE))
    /\ \A e \in Skeletons : PlainName(e["name"].s) => e["id"] = NormalizerId(e["name"])

-----------------------------------------------------------------------------
(* A pull of the auto-sync thread, record by record, while requests to      *)
(* /normalize-characters write the same formatted directory                 *)

\* the pull is not running; between holds what a request last saved to dest
\* since the pull loaded it
PullIdle ==
    [pc |-> "idle", results |-> <<>>, i |-> 1, data |-> EmptyDict, dest |-> <<>>,
     loaded |-> Missing, current |-> EmptyDict, between |-> <<>>, log |-> <<>>]

\* the remote databases of the race model
RaceRemotes ==
    {<<StalePage(1, Ly, EmptyDict)>>,
     <<StalePage(1, Ly, EmptyDict), StalePage(2, Ab, EmptyDict)>>,
     <<StalePage(1, Ab, EmptyDict), StalePage(2, Ly, EmptyDict)>>}

InitRace ==
    /\ race = PullIdle
    /\ fs = [p \in {FileLy} |-> Json(Dict(BaseEntity(Ly, RawFile)))]
    /\ db \in RaceRemotes
    /\ mapping = FullMapping
    /\ hist = <<>>
    /\ env = EnvOk
    /\ IdleIndex
    /\ IdleBatch
    /\ IdleFormat
    /\ IdleSched
    /\ IdleSchema
    /\ IdlePager
    /\ IdleDisk

\* worker: _do_pull_all_internal() calls the pull, which reads the remote
TimerPullStart ==
    /\ race.pc = "idle"
    /\ race' = [race EXCEPT !.pc = "record", !.results = Paginate(db, 1, <<>>)]
    /\ UNCHANGED <<fs, db, mapping, hist, env, indexVars, others, batch, formatVars, sched,
                   schema, pager, disk>>

\* one turn of the for loop up to the merge: the destination is found and the
\* file, if there is one, is loaded
PullLoad ==
    /\ race.pc = "record"
    /\ race.i <= Len(race.results)
    /\ LET pg == race.results[race.i]
           data == build_json_from_page(pg.props, mapping)
           name == PullName(data)
           file_path == get_by_path(Dict(data), <<"source", "file">>)
           bad == ~IsStr(name) \/ (Truthy(file_path) /\ ~IsStr(file_path))
           dest == PullDest(fs, data, name, Category)
       IN race' = IF bad THEN [race EXCEPT !.i = @ + 1]
                  ELSE [race EXCEPT
                            !.pc = "loaded", !.data = data, !.dest = dest,
                            !.loaded = IF dest \in DOMAIN fs THEN fs[dest] ELSE Missing,
                            !.current = PullCurrent(fs, dest, name, Category),
                            !.between = <<>>]
    /\ UNCHANGED <<fs, db, mapping, hist, env, indexVars, others, batch, formatVars, sched,
                   schema, pager, disk>>

\* a variant of the save that merges into the file as it is when it saves
PullSave_Reload ==
    /\ race.pc = "loaded"
    /\ LET current == IF race.dest \in DOMAIN fs /\ fs[race.dest].ok
                         /\ IsDict(fs[race.dest].json)
                      THEN fs[race.dest].json.d ELSE race.current
           saved == Json(Dict(MergeMapped(current, race.data, mapping)))
       IN /\ fs' = [q \in (DOMAIN fs) \cup {race.dest} |->
                        IF q = race.dest THEN saved ELSE fs[q]]
          /\ race' = [race EXCEPT !.pc = "record", !.i = @ + 1,
                                  !.log = Append(@, [dest |-> race.dest, data |-> race.data,
                                                     loaded |-> race.loaded,
                                                     current |-> race.current,
                                                     between |-> race.between,
                                                     saved |-> saved])]
    /\ UNCHANGED <<db, mapping, hist, env, indexVars, others, batch, formatVars, sched,
                   schema, pager, disk>>

\* the rest of the turn: the mapped fields are merged into the loaded copy and
\* save_json writes it
PullSave ==
    /\ race.pc = "loaded"
    /\ LET saved == Json(Dict(MergeMapped(race.current, race.data, mapping)))
       IN /\ fs' = [q \in (DOMAIN fs) \cup {race.dest} |->
                        IF q = race.dest THEN saved ELSE fs[q]]
          /\ race' = [race EXCEPT !.pc = "record", !.i = @ + 1,
                                  !.log = Append(@, [dest |-> race.dest, data |-> race.data,
                                                     loaded |-> race.loaded,
                                                     current |-> race.current,
                                                     between |-> race.between,
                                                     saved |-> saved])]
    /\ UNCHANGED <<db, mapping, hist, env, indexVars, others, batch, formatVars, sched,
                   schema, pager, disk>>

\* the pull returns
PullDone ==
    /\ race.pc = "record"
    /\ race.i > Len(race.results)
    /\ race' = [race EXCEPT !.pc = "done"]
    /\ UNCHANGED <<fs, db, mapping, hist, env, indexVars, others, batch, formatVars, sched,
                   schema, pager, disk>>

\* the path of a file a normalization route wrote into formatted
FormattedPath(module, written) == PathIn(module, StemOf(written.path[1]))

\* a request to /normalize-characters is served by another thread: it writes
\* one file per entity and _index.json, at any point of the pull
RequestNormalize ==
    /\ Serving
    /\ \E input \in RouteInputs("normalize-characters") :
        \E r \in {NormalizeRoute("normalize-characters", SYNONYMS, Missing, input,
                                 NormalizeCharacters)} :
            LET paths == {FormattedPath("characters", r.written[i]) : i \in DOMAIN r.written}
                last(p) == CHOOSE i \in DOMAIN r.written :
                            /\ FormattedPath("characters", r.written[i]) = p
                            /\ \A j \in DOMAIN r.written :
                                FormattedPath("characters", r.written[j]) = p => j <= i
            IN /\ SYNONYMS' = r.globals
               /\ call' = [op |-> "normalize-characters", module |-> "characters",
                           mappings |-> Missing, input |-> input, before |-> SYNONYMS,
                           ran |-> r.loaded, set |-> r.globals.characters,
                           used |-> r.globals.characters, status |-> r.status,
                           entries |-> r.entries, written |-> r.written]
               /\ fs' = [p \in DOMAIN fs \cup paths |->
                            IF p \in paths THEN Json(LoadedDoc(r.written[last(p)].data))
                            ELSE fs[p]]
               /\ race' = IF race.pc = "loaded" /\ race.dest \in paths
                          THEN [race EXCEPT !.between = <<fs'[race.dest]>>]
                          ELSE race
    /\ UNCHANGED <<db, mapping, hist, env, indexVars, others, batch, sched,
                   schema, pager, disk>>

NextRace == TimerPullStart \/ PullLoad \/ PullSave \/ PullDone \/ RequestNormalize

SpecRace == InitRace /\ [][NextRace]_vars

-----------------------------------------------------------------------------
(* scripts/notion_sync.py: what a push leaves on disk *)

\* the step is a push
PushStep ==
    /\ Len(hist') = Len(hist) + 1
    /\ hist'[Len(hist')].op = "push"

\* the files whose entry the last operation, a push, has built, with a
\* source.file in the payload that the file itself does not hold
SourceOnlyInPayload ==
    {k \in DOMAIN hist[Len(hist)].log :
        LET turn == hist[Len(hist)].log[k]
        IN /\ turn.built
           /\ get_by_path(Dict(turn.entry), <<"source", "file">>) = Str(turn.file)
           /\ get_by_path(fs[turn.file].json, <<"source", "file">>) # Str(turn.file)}

\* C27: a push writes, creates and modifies no local file: every file is
\* after the push what it was before, and the source.file and source.category
\* the push sets are in the entry it sends only
C27_PushLeavesTheFilesAlone ==
    [][PushStep =>
        /\ fs' = fs
        /\ \A k \in DOMAIN hist'[Len(hist')].log :
            LET turn == hist'[Len(hist')].log[k]
            IN turn.built =>
                /\ get_by_path(Dict(turn.entry), <<"source", "file">>) = Str(turn.file)
                /\ get_by_path(Dict(turn.entry), <<"source", "category">>) # Null]_vars

\* a push has sent the path of a file as its source.file, and the file still
\* holds another one
C27_Witness ==
    /\ hist # <<>>
    /\ hist[Len(hist)].op = "push"
    /\ hist[Len(hist)].error = ""
    /\ hist[Len(hist)].fsBefore = fs
    /\ SourceOnlyInPayload # {}

-----------------------------------------------------------------------------
(* app.py: the creature refactors and what they leave of creatures.json *)

\* refactor runs followed
MaxRefactors == 3

\* creatures.json before any refactor
RefactorSources == RouteInputs("refactor-creatures") \cup CreatureGroupDocuments

\* the data written to a file of the creatures directory
WrittenTo(written, name) ==
    written[CHOOSE i \in DOMAIN written : written[i].path = <<name>>].data

\* the files written below formatted
FormattedFiles(written) ==
    {written[i].path : i \in {j \in DOMAIN written :
        written[j].path \notin {<<<<"c", "r", "e", "a", "t", "u", "r", "e", "s", ".", "j", "s", "o", "n", ".", "b", "a", "k">>>>, <<<<"c", "r", "e", "a", "t", "u", "r", "e", "s", ".", "j", "s", "o", "n">>>>}}}

\* lore/creatures holds creatures.json, or does not; first is what it held
\* before any refactor
InitRefactor ==
    /\ \E source \in RefactorSources :
        disk = [source |-> source, bak |-> Missing, formatted |-> {}, first |-> source,
                runs |-> <<>>]
    /\ env = EnvOk
    /\ IdleSync
    /\ IdleIndex
    /\ IdleBatch
    /\ IdleFormat
    /\ IdleSched
    /\ IdleSchema
    /\ IdlePager
    /\ IdleRace

\* a request to /refactor-creatures with its default options
RefactorRoute ==
    /\ Len(disk.runs) < MaxRefactors
    /\ \E r \in {NormalizeRoute("refactor-creatures", SYNONYMS, Missing, disk.source,
                                NormalizeCreatures)} :
        /\ SYNONYMS' = r.globals
        /\ disk' = IF r.status = 200
                   THEN [disk EXCEPT
                            !.source = Json(WrittenTo(r.written, <<"c", "r", "e", "a", "t", "u", "r", "e", "s", ".", "j", "s", "o", "n">>)),
                            !.bak = WrittenTo(r.written, <<"c", "r", "e", "a", "t", "u", "r", "e", "s", ".", "j", "s", "o", "n", ".", "b", "a", "k">>),
                            !.formatted = @ \cup FormattedFiles(r.written),
                            !.runs = Append(@, [op |-> "route", ran |-> TRUE,
                                                total |-> Len(r.entries.l)])]
                   ELSE [disk EXCEPT !.runs = Append(@, [op |-> "route", ran |-> FALSE,
                                                         total |-> 0])]
    /\ UNCHANGED <<call, sched, env, syncVars, indexVars, others, batch, schema, pager, race>>

\* the application starts and its worker calls _maybe_refactor_creatures;
\* enabled is AUTO_REFACTOR_CREATURES_ON_START
AutoRefactor ==
    /\ Len(disk.runs) < MaxRefactors
    /\ \E enabled \in BOOLEAN :
        IF enabled /\ Cardinality(disk.formatted) < 5 /\ disk.source # Missing
        THEN \E globals \in {set_synonyms(SYNONYMS,
                                load_synonyms(SYNONYMS.characters, Missing))} :
             \E entries \in {NormalizeCreatures(disk.source, globals)} :
                /\ SYNONYMS' = globals
                /\ disk' = IF Raised(entries)
                           THEN [disk EXCEPT !.runs = Append(@, [op |-> "auto", ran |-> FALSE,
                                                                 total |-> 0])]
                           ELSE LET written == AutoCreatureFiles(disk.source, entries.l)
                                IN [disk EXCEPT
                                        !.source = Json(WrittenTo(written, <<"c", "r", "e", "a", "t", "u", "r", "e", "s", ".", "j", "s", "o", "n">>)),
                                        !.bak = WrittenTo(written, <<"c", "r", "e", "a", "t", "u", "r", "e", "s", ".", "j", "s", "o", "n", ".", "b", "a", "k">>),
                                        !.formatted = @ \cup FormattedFiles(written),
                                        !.runs = Append(@, [op |-> "auto", ran |-> TRUE,
                                                            total |-> Len(entries.l)])]
        ELSE /\ disk' = [disk EXCEPT !.runs = Append(@, [op |-> "auto", ran |-> FALSE,
                                                         total |-> 0])]
             /\ UNCHANGED SYNONYMS
    /\ UNCHANGED <<call, sched, env, syncVars, indexVars, others, batch, schema, pager, race>>

NextRefactor == RefactorRoute \/ AutoRefactor

SpecRefactor == InitRefactor /\ [][NextRefactor]_vars

\* the runs that rewrote creatures.json
Rewrites == {k \in DOMAIN disk.runs : disk.runs[k].ran}

\* the creatures of the content creatures.json had before the first refactor
OriginalCreatures == NormalizeCreatures(disk.first, DefaultSynonyms).l

\* C28: after any number of creature refactors, by the route and at start-up
\* in any order, creatures.json.bak holds what creatures.json held before the
\* first of them, and the total in the rewritten creatures.json is the number
\* of creatures of that content
C28_BackupKeepsTheOriginal ==
    Rewrites # {} =>
        /\ disk.bak = disk.first
        /\ OGet(disk.source.json, <<"t", "o", "t", "a", "l">>) = Num(Len(OriginalCreatures))

\* the same after the first refactor that rewrote creatures.json
BackupAfterOneRefactor ==
    Cardinality(Rewrites) = 1 =>
        /\ disk.bak = disk.first
        /\ OGet(disk.source.json, <<"t", "o", "t", "a", "l">>) = Num(Len(OriginalCreatures))

-----------------------------------------------------------------------------
(* scripts/notion_sync.py: where a pull writes *)

\* the records a pull has written, each with the files before it and the
\* file it went to
PullWrites ==
    UNION {{hist[i].log[k] : k \in {j \in DOMAIN hist[i].log :
                                        hist[i].log[j].outcome = "written"}} :
            i \in {h \in DOMAIN hist : hist[h].op = "pull" /\ hist[h].error = ""}}

\* C29: a file a pull of a category writes is a file that existed at the
\* path the record gives as source.file, or a file in the formatted directory
\* of the category; no file is created anywhere else
C29_PullWritesInsideTheCategory ==
    /\ \A turn \in PullWrites :
        \/ /\ turn.dest \in DOMAIN turn.before
           /\ get_by_path(Dict(turn.data), <<"source", "file">>) = Str(turn.dest)
        \/ InDir(turn.dest, Category)
    /\ \A i \in DOMAIN hist :
        hist[i].op = "pull" =>
            LET after == IF i < Len(hist) THEN hist[i + 1].fsBefore ELSE fs
            IN \A p \in DOMAIN after \ DOMAIN hist[i].fsBefore : InDir(p, Category)

\* a pull has written a file outside the category directory that the record
\* named, and has created the file of a name that holds a path separator
C29_Witness ==
    /\ \E turn \in PullWrites : ~InDir(turn.dest, Category) /\ turn.dest \in DOMAIN fs
    /\ \E turn \in PullWrites :
        /\ turn.dest \notin DOMAIN turn.before
        /\ "/" \in Range(PullName(turn.data).s)

-----------------------------------------------------------------------------
(* app.py: the push, pull and ensure-schema routes of one category *)

\* the environment of an installation; sdk says that scripts.notion_sync
\* itself imports (the notion_client package is installed)
Installations ==
    {[token |-> e.token, dbs |-> e.dbs, maps |-> e.maps, sdk |-> s] :
        e \in EnvSamples, s \in BOOLEAN}

InitAvail ==
    /\ env \in Installations
    /\ IdleSync
    /\ IdleIndex
    /\ IdleBatch
    /\ IdleFormat
    /\ IdleSched
    /\ IdleOther

\* /push-<c>-to-notion, /pull-<c>-from-notion and /ensure-<c>-schema of the
\* three categories of scripts/notion_sync.py: the function app.py imported
\* is called, unless it is None
FullRoute ==
    /\ batch.runs < MaxRuns
    /\ \E kind \in {"push", "pull", "ensure"}, c \in CATEGORY_DIRS :
        IF ~(env.sdk /\ FullFunction(kind, c))
        THEN /\ batch' = Ran1(kind \o "_route",
                              [x \in {c} |-> ErrorResult("Notion sync module not available")])
             /\ UNCHANGED <<fs, db, others, schema>>
        ELSE LET pre == SyncPrecondition(env, c)
                 pages == DbOf(c, db, others)
             IN IF pre # ""
                THEN /\ batch' = Ran1(kind \o "_route", [x \in {c} |-> ErrorResult(pre)])
                     /\ UNCHANGED <<fs, db, others, schema>>
                ELSE CASE kind = "push" ->
                            \E r \in {push_to_notion(fs, pages, mapping, c, 0)} :
                                /\ batch' = Ran1("push_route",
                                        [x \in {c} |-> [kind |-> "ok", value |-> r.result,
                                                        calls |-> 1]])
                                /\ db' = IF c = Category THEN r.pages ELSE db
                                /\ others' = IF c = Category THEN others
                                             ELSE [others EXCEPT ![c] = r.pages]
                                /\ UNCHANGED <<fs, schema>>
                       [] kind = "pull" ->
                            \E r \in {pull_from_notion(fs, pages, mapping, c, 0)} :
                                /\ batch' = Ran1("pull_route",
                                        [x \in {c} |-> [kind |-> "ok", value |-> r.result,
                                                        calls |-> 1]])
                                /\ fs' = r.files
                                /\ UNCHANGED <<db, others, schema>>
                       [] kind = "ensure" ->
                            \E r \in {ensure_schema(schema.props, mapping, TRUE, TRUE)} :
                                /\ batch' = Ran1("ensure_route",
                                        [x \in {c} |-> [kind |-> "ok", value |-> r.result,
                                                        calls |-> 1]])
                                /\ schema' = [schema EXCEPT !.props = r.props]
                                /\ UNCHANGED <<fs, db, others>>
    /\ UNCHANGED <<mapping, env, formatVars, sched, hist, indexVars, pager, race, disk>>

NextAvail == FullRoute

SpecAvail == InitAvail /\ [][NextAvail]_vars

\* C30: where scripts.notion_sync itself imports, the push, pull and
\* ensure-schema routes of characters, creatures and realms call their
\* function: no request to them is answered "Notion sync module not
\* available", whether or not the plots and magic functions exist
C30_SyncFunctionsAvailable ==
    (env.sdk /\ batch.handler \in {"push_route", "pull_route", "ensure_route"}) =>
        \A c \in DOMAIN batch.results :
            batch.results[c] # ErrorResult("Notion sync module not available")

====
